---- MODULE Spec2Model ----
(***************************************************************************)
(* Activity accounting of the browser extension: DatabaseService (pages,   *)
(* events), IdleTracker and TabManager of src/entrypoints/background.ts.   *)
(*                                                                         *)
(* Every async handler is a task.  A task is suspended at each `await` on  *)
(* a storage request; one step of the model performs the awaited request   *)
(* on the store and runs the continuation synchronously up to the next     *)
(* await (JavaScript runs a continuation to completion; the store executes *)
(* each request atomically).  Other tasks and host signals may run         *)
(* between two steps of a task.                                            *)
(***************************************************************************)
EXTENDS Integers, Sequences, FiniteSets, TLC

\* ---------------------------------------------------------------- bounds
MaxTabs == 2       \* tab ids 1..MaxTabs
MaxTasks == 2      \* handlers suspended at an await at the same time
MaxOps == 2        \* host signals delivered in one run
MaxTime == 3       \* the clock runs from 1 to MaxTime
MaxPages == 3      \* rows the pages table can hold

Tabs == 1..MaxTabs
NoTab == 0                         \* currentFocusedTab === undefined
None == 0                          \* currentSessionStart === undefined
PageIds == 1..MaxPages

\* ------------------------------------------------------------------ URLs
\* A URL as the URL parser sees it.
MkUrl(host, path, query, hash) ==
    [protocol |-> "https:", host |-> host, pathname |-> path,
     search |-> query, hash |-> hash]

NoUrl == [protocol |-> "", host |-> "", pathname |-> "", search |-> "", hash |-> ""]

Urls == { MkUrl("a.com", "/x", "", ""),
          MkUrl("a.com", "/x", "?q=1", ""),
          MkUrl("b.com", "/", "", "") }

\* `${urlObj.protocol}//${urlObj.host}${urlObj.pathname}`, parsed again
cleanUrl(url) == [url EXCEPT !.search = "", !.hash = ""]

extractDomain(url) == url.host

\* ----------------------------------------------------------------- state
VARIABLES
    now,                \* Date.now()
    pages,              \* db.pages: sequence of rows, the index is the ++id
    events,             \* db.events: rows counted by (pageId, type)
    activeTabs,         \* TabManager.activeTabs
    currentFocusedTab,  \* TabManager.currentFocusedTab
    isIdle,             \* IdleTracker.isIdle
    tasks,              \* the suspended handlers, in the order they started
    ops,                \* host signals and direct calls delivered so far
    \* history variables: they record what happened and steer nothing
    returned,           \* per page, the sum of the values endPageActivity returned
    ended,              \* per page: an endPageActivity call returned and no
                        \* startPageActivity call has read or written the page since
    bound,              \* per tab, the pages it is or was bound to since it was opened
    ret,                \* what a DatabaseService call returned in the last step
    fin,                \* the handler that completed in the last step
    sessions,           \* db.sessions: sequence of rows, the index is the ++id
    currentSessionId,   \* SessionManager.currentSessionId, None for null
    sessionStartTime,   \* SessionManager.sessionStartTime, None for null
    calls,              \* the requests to db.sessions in flight, oldest first
    \* history variables of SessionManager
    issued,             \* the session ids generated so far, those of prior runs too
    got,                \* what the last getCurrentSessionId call returned
    callbacks,          \* IdleTracker.callbacks: whether each one throws
    hostListeners,      \* the functions registered with idle.onStateChanged
    \* history variables of IdleTracker
    binds,              \* the functions handleIdleStateChange.bind(this) has made
    notified,           \* what the last host report called each callback with
    cleaned,            \* cleanup() has run, and isIdle at that time
    hostIdle,           \* the host's idle state is not 'active'
    isTrackingEnabled,  \* BackgroundService.isTrackingEnabled
    response,           \* what the last request or statistic call answered
    txn,                \* the transaction of clearAllData in progress
    wiped,              \* history: the tables the clear in progress has emptied
    badge               \* BadgeManager.currentTabId, currentTabTotalTime

vars == <<now, pages, events, activeTabs, currentFocusedTab, isIdle, tasks, ops,
          returned, ended, bound, ret, fin,
          sessions, currentSessionId, sessionStartTime, calls, issued, got,
          callbacks, hostListeners, binds, notified, cleaned, hostIdle,
          isTrackingEnabled, badge, response, txn, wiped>>

serviceVars == <<isTrackingEnabled, badge, response, txn, wiped>>

trackerVars == <<callbacks, hostListeners, binds, notified, cleaned, hostIdle>>

sessionVars == <<sessions, currentSessionId, sessionStartTime, calls, issued, got>>

EventTypes == {"page_view", "focus_gain", "tab_close"}

\* ActiveTab.  url and domain are those of the page; lastActivityTime is written
\* and never read, and is left out.
NoEntry == [pageId |-> 0, isVisible |-> FALSE, isIdle |-> FALSE]

Tracked(tabs, t) == t \in Tabs /\ tabs[t].pageId # 0

NoOverlap == 0 - 1

\* A suspended handler.  pc: the await it is suspended at; h: the handler;
\* tab, url: its arguments; pageId: the page of the request in flight;
\* T, e, at, vc: locals of the DatabaseService call (page.totalActiveTime,
\* sessionTime, Date.now(), visitCount); live: the ActiveTab object it holds is
\* still the one in the map.
\* History fields: iso (nothing else ran since it started), pre (the page that
\* was bound or accruing when it started), pair (idle-enter/idle-exit pair),
\* ov (elapsed committed by an overlapping endPageActivity of the same span),
\* saw (marker a startPageActivity call read), again (endPageActivity called
\* again with no startPageActivity in between).
FreeTask ==
    [pc |-> "free", h |-> "-", tab |-> 0, url |-> NoUrl, pageId |-> 0,
     T |-> 0, e |-> 0, at |-> 0, vc |-> 0, live |-> FALSE,
     iso |-> FALSE, pre |-> 0, pair |-> FALSE, ov |-> NoOverlap,
     saw |-> None, again |-> FALSE]

\* a handler that starts now
New(h, tab, url) ==
    [FreeTask EXCEPT !.pc = "-", !.h = h, !.tab = tab, !.url = url,
                     !.iso = (tasks = << >>)]

\* the handler moves on to the await pc, with a request on page pageId
Go(tk, pc, pageId) ==
    [tk EXCEPT !.pc = pc, !.pageId = pageId, !.T = 0, !.e = 0, !.at = 0,
               !.vc = 0, !.ov = NoOverlap, !.saw = None, !.again = FALSE]

Quiescent == tasks = << >>

\* the place a newly started handler takes
FreeSlot == Len(tasks) + 1

NoRet == [call |-> "-", page |-> 0, T |-> 0, e |-> 0, to |-> "-"]
NoFin == [h |-> "-", tab |-> 0, page |-> 0, url |-> NoUrl, cycle |-> FALSE,
          cfg |-> << >>]

\* --------------------------------------------------------- DatabaseService
NewPage(url, at) ==
    [url |-> url, totalActiveTime |-> 0, currentSessionStart |-> None,
     lastVisit |-> at, visitCount |-> 1]

\* the place of a row that clear() has deleted: its id is not given again
Gone == [url |-> NoUrl, totalActiveTime |-> 0, currentSessionStart |-> None,
         lastVisit |-> 0, visitCount |-> 0]

Exists(pageId) == pageId \in 1..Len(pages) /\ pages[pageId] # Gone

\* db.pages.where('url').equals(cleanedUrl).first(): 0 when there is none
FirstByUrlIn(ps, url) ==
    IF \E p \in 1..Len(ps) : ps[p].url = url
    THEN CHOOSE p \in 1..Len(ps) :
            /\ ps[p].url = url
            /\ \A q \in 1..Len(ps) : ps[q].url = url => p <= q
    ELSE 0

FirstByUrl(url) == FirstByUrlIn(pages, url)

\* upsertPage, existing page: the row after db.pages.update(existingPage.id, ...)
UpsertUpdate(page, tk) ==
    [page EXCEPT !.lastVisit = tk.at, !.visitCount = tk.vc]

\* a startPageActivity that looks only at `!page`
StartReturnsEarlyUnknownOnly(pageId) == ~Exists(pageId)

\* startPageActivity: `if (!page || page.currentSessionStart) return`
StartReturnsEarly(pageId) ==
    \/ ~Exists(pageId)
    \/ pages[pageId].currentSessionStart # None

\* startPageActivity: the row after db.pages.update(pageId, ...)
StartUpdate(page, tk) ==
    [page EXCEPT !.currentSessionStart = tk.at, !.lastVisit = tk.at]

\* an endPageActivity that looks only at `!page`
EndReturnsZeroUnknownOnly(pageId) == ~Exists(pageId)

\* endPageActivity: `if (!page?.currentSessionStart) return 0`
EndReturnsZero(pageId) ==
    \/ ~Exists(pageId)
    \/ pages[pageId].currentSessionStart = None

\* endPageActivity: sessionTime = now - page.currentSessionStart
SessionTime(page) == now - page.currentSessionStart

\* an endPageActivity that adds sessionTime to the stored total
EndUpdateAdding(page, tk) ==
    [page EXCEPT !.totalActiveTime = @ + tk.e,
                 !.currentSessionStart = None,
                 !.lastVisit = tk.at]

\* endPageActivity: the row after db.pages.update(pageId, ...)
EndUpdate(page, tk) ==
    [page EXCEPT !.totalActiveTime = tk.T + tk.e,
                 !.currentSessionStart = None,
                 !.lastVisit = tk.at]

\* db.pages.update(id, changes): nothing happens when the row is absent
UpdateRow(pageId, row) ==
    IF Exists(pageId) THEN [pages EXCEPT ![pageId] = row] ELSE pages

\* The elapsed duration the `data` of an event of this type carries: addEvent
\* is called with { referrer } for page_view and with no data for focus_gain
\* and tab_close, and endTabActivity only logs activeTime to the console.
activeTimeMs(type) == 0

\* addEvent
AddEvent(pageId, type) ==
    [events EXCEPT ![pageId][type] = @ + 1]

\* ------------------------------------------------------- the task sequence
\* Task i becomes tk in the sequence ts; a finished task (FreeTask) leaves it.
Settle(ts, i, tk) ==
    IF tk.pc = "free"
    THEN [j \in 1..(IF i <= Len(ts) THEN Len(ts) - 1 ELSE Len(ts)) |->
             IF j < i THEN ts[j] ELSE ts[j + 1]]
    ELSE IF i <= Len(ts) THEN [ts EXCEPT ![i] = tk] ELSE Append(ts, tk)

\* Task i runs (signal: a host signal starts it): the others are no longer alone.
Disturb(ts, i, signal) ==
    [j \in 1..Len(ts) |->
        IF j = i THEN ts[j]
        ELSE [ts[j] EXCEPT !.iso = FALSE,
                           !.pair = IF signal THEN FALSE ELSE @]]

\* activeTabs.set / activeTabs.delete replace the object of tab t: a handler
\* still holding the old object (handleVisibilityChange) no longer reaches the map.
Replaced(ts, t) ==
    [j \in 1..Len(ts) |->
        IF ts[j].h = "VH" /\ ts[j].tab = t
        THEN [ts[j] EXCEPT !.live = FALSE]
        ELSE ts[j]]

\* the record of a completed handler
Fin(old, new, ts) ==
    IF new.pc = "free" /\ (old.iso \/ old.pair)
    THEN [h |-> IF old.iso THEN old.h ELSE "-",
          tab |-> old.tab,
          page |-> old.pre,
          url |-> old.url,
          cycle |-> old.pair /\ \A j \in 1..Len(ts) : ~ts[j].pair,
          cfg |-> << >>]
    ELSE NoFin

\* Task i of ts, which was `old`, continues as r.tk with the map r.tabs and
\* the focused tab r.foc
Continue(i, old, r, ts) ==
    /\ activeTabs' = r.tabs
    /\ currentFocusedTab' = r.foc
    /\ tasks' = Settle(ts, i, r.tk)
    /\ fin' = Fin(old, r.tk, tasks')

Result(tk, tabs, foc) == [tk |-> tk, tabs |-> tabs, foc |-> foc]

\* ----------------------------------------------------- TabManager pieces
\* startTabActivity(tabId), up to its await, seen with the map `tabs`,
\* the focused tab `foc` and the idle state `idle`
StartCondition(tabs, foc, idle, t) ==
    /\ Tracked(tabs, t)
    /\ tabs[t].isVisible
    /\ ~idle
    /\ foc = t

startTabActivity(tk, tabs, foc, idle, t) ==
    IF StartCondition(tabs, foc, idle, t)
    THEN Go(tk, "S1", tabs[t].pageId)
    ELSE FreeTask

\* handleTabFocusGain from `this.currentFocusedTab = tabId` to the addEvent await
FocusSet(tk, t) ==
    IF Tracked(activeTabs, t)
    THEN Result(Go(tk, "EV", activeTabs[t].pageId),
                [activeTabs EXCEPT ![t].isVisible = TRUE], t)
    ELSE Result(FreeTask, activeTabs, t)

\* cleanup(): the key of activeTabs that follows t in `for (const tabId of
\* this.activeTabs.keys())`, 0 when there is none; the keys are taken in the
\* order of the tab ids
NextKey(t) ==
    IF \E u \in Tabs : u > t /\ Tracked(activeTabs, u)
    THEN CHOOSE u \in Tabs :
            /\ u > t /\ Tracked(activeTabs, u)
            /\ \A v \in Tabs : (v > t /\ Tracked(activeTabs, v)) => u <= v
    ELSE 0

\* cleanup() after the key t: endTabActivity of the next key is awaited, or
\* the loop is over, activeTabs is cleared and currentFocusedTab unset
cleanupLoop(tk, t) ==
    IF NextKey(t) # 0
    THEN Result(Go([tk EXCEPT !.tab = NextKey(t)], "E1",
                   activeTabs[NextKey(t)].pageId),
                activeTabs, currentFocusedTab)
    ELSE Result(FreeTask, [u \in Tabs |-> NoEntry], NoTab)

\* IdleTracker.cleanup(): the callbacks are dropped, and removeListener is
\* given this.handleIdleStateChange.bind(this), a function made by this call:
\* the one init() registered is another and stays registered.
TrackerCleaned ==
    /\ callbacks' = << >>
    /\ binds' = binds + 1
    /\ hostListeners' = hostListeners \ {binds + 1}
    /\ cleaned' = [done |-> TRUE, isIdle |-> isIdle]
    /\ notified' = [reported |-> FALSE, flip |-> FALSE, n |-> 0, calls |-> << >>]
    /\ UNCHANGED hostIdle

\* `this.idleTracker.cleanup()` ends TabManager.cleanup(): the handler old
\* goes on as new
TrackerAfter(old, new) ==
    IF old.h = "CL" /\ new.pc = "free" THEN TrackerCleaned ELSE UNCHANGED trackerVars

\* What follows `await this.endTabActivity(...)` in the handler of task tk
AfterEnd(tk) ==
    CASE tk.h = "PV" ->
           Result(Go(tk, "U1", 0), activeTabs, currentFocusedTab)
      [] tk.h = "FG" -> FocusSet(tk, tk.tab)
      [] tk.h = "TC" ->
           Result(Go(tk, "EV", tk.pageId), activeTabs, currentFocusedTab)
      [] tk.h = "WF" ->
           Result(FreeTask, activeTabs, NoTab)
      [] tk.h = "CL" -> cleanupLoop(tk, tk.tab)
      [] tk.h = "SV" ->
           \* saveCurrentActivity: `if (savedTime && savedTime > 0)`
           Result(IF tk.e > 0
                  THEN startTabActivity(tk, activeTabs, currentFocusedTab,
                                        isIdle, tk.tab)
                  ELSE FreeTask,
                  activeTabs, currentFocusedTab)
      [] tk.h = "VH" ->
           Result(FreeTask,
                  IF tk.live
                  THEN [activeTabs EXCEPT ![tk.tab].isVisible = FALSE]
                  ELSE activeTabs,
                  currentFocusedTab)
      [] OTHER ->
           Result(FreeTask, activeTabs, currentFocusedTab)

\* endTabActivity(t) awaited by the handler tk: suspends at the get of
\* endPageActivity when t is tracked, else returns undefined at once
endTabActivity(tk, t) ==
    IF Tracked(activeTabs, t)
    THEN Result(Go(tk, "E1", activeTabs[t].pageId), activeTabs, currentFocusedTab)
    ELSE AfterEnd(tk)

\* the page of the focused tab, when another tab than t is focused and accruing
AccruingPage(t) ==
    IF /\ currentFocusedTab # NoTab
       /\ currentFocusedTab # t
       /\ Tracked(activeTabs, currentFocusedTab)
       /\ pages[activeTabs[currentFocusedTab].pageId].currentSessionStart # None
    THEN activeTabs[currentFocusedTab].pageId
    ELSE 0

\* a handleTabFocusGain that does not end the activity of the focused tab
FocusGainWithoutEnd(tk, t) == FocusSet(tk, t)

\* handleTabFocusGain(t), run by the handler tk
handleTabFocusGain(tk, t) ==
    IF currentFocusedTab # NoTab /\ currentFocusedTab # t
    THEN endTabActivity(tk, currentFocusedTab)
    ELSE FocusSet(tk, t)

\* a handlePageView that starts at upsertPage
PageViewWithoutEnd(tk, t) == AfterEnd(tk)

\* handlePageView(t, url), run by the handler tk
handlePageView(tk, t) ==
    endTabActivity(tk, t)

\* a handleTabClose that logs the event without ending the tab's activity
TabCloseWithoutEnd(tk, t) ==
    IF Tracked(activeTabs, t)
    THEN Result(Go(tk, "EV", activeTabs[t].pageId), activeTabs, currentFocusedTab)
    ELSE Result(FreeTask, activeTabs,
                IF currentFocusedTab = t THEN NoTab ELSE currentFocusedTab)

\* handleTabClose(t), run by the handler tk
handleTabClose(tk, t) ==
    IF Tracked(activeTabs, t)
    THEN endTabActivity(tk, t)
    ELSE Result(FreeTask, activeTabs,
                IF currentFocusedTab = t THEN NoTab ELSE currentFocusedTab)

\* handleWindowFocusChanged(WINDOW_ID_NONE), run by the handler tk
handleWindowFocusLost(tk) ==
    IF currentFocusedTab # NoTab
    THEN endTabActivity(tk, currentFocusedTab)
    ELSE Result(FreeTask, activeTabs, currentFocusedTab)

\* handleVisibilityChange(t, visible), run by the handler tk
handleVisibilityChange(tk, t, visible) ==
    IF ~Tracked(activeTabs, t)
    THEN Result(FreeTask, activeTabs, currentFocusedTab)
    ELSE IF visible /\ ~activeTabs[t].isVisible
    THEN handleTabFocusGain([tk EXCEPT !.h = "FG",
                                       !.pre = IF tk.iso THEN AccruingPage(t) ELSE 0], t)
    ELSE IF ~visible /\ activeTabs[t].isVisible
    THEN endTabActivity([tk EXCEPT !.live = TRUE], t)
    ELSE Result(FreeTask, activeTabs, currentFocusedTab)

\* ------------------------------------------------------------ host signals
Deliver == /\ ops < MaxOps
           /\ Len(tasks) < MaxTasks
           /\ ops' = ops + 1

\* a host signal starts the handler tk, which runs to r
Start(tk, r) ==
    /\ Continue(FreeSlot, tk, r, Disturb(tasks, FreeSlot, TRUE))
    /\ ret' = NoRet
    /\ UNCHANGED <<sessionVars, trackerVars, serviceVars, now, pages, events, isIdle, returned, ended, bound>>

\* BackgroundService.handleTabUpdated / PAGE_VIEW message -> handlePageView
PageView(t, url) ==
    /\ Deliver
    /\ LET tk == [New("PV", t, url) EXCEPT
                      !.pre = IF tasks = << >> THEN activeTabs[t].pageId ELSE 0]
       IN Start(tk, handlePageView(tk, t))

\* BackgroundService.handleTabActivated -> handleTabFocusGain
TabFocusGain(t) ==
    /\ Deliver
    /\ LET tk == [New("FG", t, NoUrl) EXCEPT
                      !.pre = IF tasks = << >> THEN AccruingPage(t) ELSE 0]
       IN Start(tk, handleTabFocusGain(tk, t))

\* BackgroundService.handleTabRemoved -> handleTabClose
TabClose(t) ==
    /\ Deliver
    /\ LET tk == [New("TC", t, NoUrl) EXCEPT
                      !.pre = IF tasks = << >> THEN activeTabs[t].pageId ELSE 0]
       IN Start(tk, handleTabClose(tk, t))

\* handleWindowFocusChanged(WINDOW_ID_NONE)
WindowFocusLost ==
    /\ Deliver
    /\ LET tk == New("WF", 0, NoUrl)
       IN Start(tk, handleWindowFocusLost(tk))

\* handleWindowFocusChanged(windowId): suspends at chrome.tabs.query
WindowFocusGained ==
    /\ Deliver
    /\ LET tk == New("FG", 0, NoUrl)
       IN Start(tk, Result(Go(tk, "WQ", 0), activeTabs, currentFocusedTab))

\* VISIBILITY_CHANGE message -> handleVisibilityChange
VisibilityChange(t, visible) ==
    /\ Deliver
    /\ LET tk == New("VH", t, NoUrl)
       IN Start(tk, handleVisibilityChange(tk, t, visible))

\* a handleIdleChange that leaves the focused tab running when the host goes idle
IdleNotGating(idle) ==
    IF currentFocusedTab = NoTab \/ idle
    THEN FreeTask
    ELSE startTabActivity(New("IS", currentFocusedTab, NoUrl), activeTabs,
                          currentFocusedTab, idle, currentFocusedTab)

\* TabManager.handleIdleChange(idle): the task it starts and does not await
\* (FreeTask: none)
handleIdleChange(idle) ==
    IF currentFocusedTab = NoTab
    THEN FreeTask
    ELSE IF idle
    THEN IF Tracked(activeTabs, currentFocusedTab)
         THEN Go(New("IE", currentFocusedTab, NoUrl), "E1",
                 activeTabs[currentFocusedTab].pageId)
         ELSE FreeTask
    ELSE startTabActivity(New("IS", currentFocusedTab, NoUrl), activeTabs,
                          currentFocusedTab, idle, currentFocusedTab)

\* the idle-exit report comes right after the idle-enter report, whose
\* endTabActivity is still suspended
ExitFollowsEnter(tk) ==
    /\ tk.h = "IS"
    /\ Len(tasks) = 1
    /\ tasks[1].h = "IE" /\ tasks[1].iso /\ tasks[1].tab = tk.tab

\* IdleTracker.handleIdleStateChange(newState) and its callback
IdleStateChange(newState) ==
    LET idle == (newState # "active")
        called == isIdle # idle /\ callbacks # << >>
        tk == IF called THEN handleIdleChange(idle) ELSE FreeTask
    IN
    /\ Deliver
    /\ hostListeners # {}
    /\ isIdle' = idle
    /\ tasks' = IF ExitFollowsEnter(tk)
                THEN << [tasks[1] EXCEPT !.pair = TRUE, !.iso = FALSE],
                        [tk EXCEPT !.pair = TRUE, !.iso = FALSE] >>
                ELSE Settle(Disturb(tasks, FreeSlot, TRUE), FreeSlot, tk)
    /\ activeTabs' = IF called
                     THEN [t \in Tabs |->
                             IF Tracked(activeTabs, t)
                             THEN [activeTabs[t] EXCEPT !.isIdle = idle]
                             ELSE activeTabs[t]]
                     ELSE activeTabs
    /\ hostIdle' = idle
    /\ ret' = NoRet
    /\ fin' = NoFin
    /\ UNCHANGED <<sessionVars, callbacks, hostListeners, binds, notified, cleaned,
                   serviceVars, now, pages, events, currentFocusedTab, returned,
                   ended, bound>>

\* the clock
Tick ==
    /\ now < MaxTime
    /\ now' = now + 1
    /\ ret' = NoRet
    /\ fin' = NoFin
    /\ UNCHANGED <<sessionVars, trackerVars, serviceVars, pages, events, activeTabs, currentFocusedTab, isIdle, tasks, ops,
                   returned, ended, bound>>

\* ------------------------------------------------- resumptions of an await
\* an endPageActivity call of the same open span as tk's has committed
SameSpan(a, b) ==
    /\ a.pc = "E2" /\ b.pc = "E2"
    /\ a.pageId = b.pageId
    /\ a.T = b.T
    /\ a.at - a.e = b.at - b.e

Overlapped(ts, i) ==
    [j \in 1..Len(ts) |->
        IF j # i /\ SameSpan(ts[j], ts[i])
        THEN [ts[j] EXCEPT !.ov = ts[i].e]
        ELSE ts[j]]

SetEnded(pageId, b) ==
    IF Exists(pageId) THEN [ended EXCEPT ![pageId] = b] ELSE ended

\* endPageActivity: db.pages.get resolves
EndGet(i) ==
    LET tk == tasks[i]
        again == Exists(tk.pageId) /\ ended[tk.pageId]
    IN
    /\ i <= Len(tasks)
    /\ tk.pc = "E1"
    /\ IF EndReturnsZero(tk.pageId)
       THEN /\ Continue(i, tk, AfterEnd(tk), Disturb(tasks, i, FALSE))
            /\ ret' = IF again
                      THEN [NoRet EXCEPT !.call = "endAgain", !.page = tk.pageId]
                      ELSE NoRet
            /\ ended' = SetEnded(tk.pageId, TRUE)
       ELSE /\ Continue(i, tk,
                        Result([tk EXCEPT !.pc = "E2",
                                          !.T = pages[tk.pageId].totalActiveTime,
                                          !.e = SessionTime(pages[tk.pageId]),
                                          !.at = now,
                                          !.again = again],
                               activeTabs, currentFocusedTab),
                        Disturb(tasks, i, FALSE))
            /\ ret' = NoRet
            /\ UNCHANGED ended
    /\ TrackerAfter(tk, IF EndReturnsZero(tk.pageId) THEN AfterEnd(tk).tk ELSE tk)
    /\ UNCHANGED <<sessionVars, serviceVars, now, pages, events, isIdle, ops, returned, bound>>

\* endPageActivity: db.pages.update resolves, sessionTime is returned
EndWrite(i) ==
    LET tk == tasks[i] IN
    /\ i <= Len(tasks)
    /\ tk.pc = "E2"
    /\ pages' = UpdateRow(tk.pageId, EndUpdate(pages[tk.pageId], tk))
    /\ Continue(i, tk, AfterEnd(tk), Overlapped(Disturb(tasks, i, FALSE), i))
    /\ ret' = IF tk.ov # NoOverlap
              THEN [NoRet EXCEPT !.call = "secondStop", !.page = tk.pageId,
                                 !.T = tk.T, !.e = tk.e]
              ELSE NoRet
    /\ returned' = [returned EXCEPT ![tk.pageId] = @ + tk.e]
    /\ ended' = SetEnded(tk.pageId, TRUE)
    /\ TrackerAfter(tk, AfterEnd(tk).tk)
    /\ UNCHANGED <<sessionVars, serviceVars, now, events, isIdle, ops, bound>>

\* upsertPage: the lookup by url resolves
UpsertFind(i) ==
    LET tk == tasks[i]
        id == FirstByUrl(cleanUrl(tk.url))
    IN
    /\ i <= Len(tasks)
    /\ tk.pc = "U1"
    /\ Continue(i, tk,
                Result([tk EXCEPT !.pc = "U2", !.pageId = id, !.at = now,
                                  !.vc = IF id = 0 THEN 1
                                         ELSE pages[id].visitCount + 1],
                       activeTabs, currentFocusedTab),
                Disturb(tasks, i, FALSE))
    /\ ret' = NoRet
    /\ UNCHANGED <<sessionVars, trackerVars, serviceVars, now, pages, events, isIdle, ops, returned, ended, bound>>

\* upsertPage: db.pages.update / db.pages.add resolves; handlePageView goes on
\* to getTabReferrer (nothing of the state is read or written) and addEvent
UpsertWrite(i) ==
    LET tk == tasks[i]
        id == IF tk.pageId # 0 THEN tk.pageId ELSE Len(pages) + 1
    IN
    /\ i <= Len(tasks)
    /\ tk.pc = "U2"
    /\ IF tk.pageId # 0
       THEN pages' = UpdateRow(tk.pageId, UpsertUpdate(pages[tk.pageId], tk))
       ELSE /\ Len(pages) < MaxPages
            /\ pages' = Append(pages, NewPage(cleanUrl(tk.url), tk.at))
    /\ Continue(i, tk,
                Result(IF tk.h = "PV" THEN Go(tk, "EV", id) ELSE FreeTask,
                       activeTabs, currentFocusedTab),
                Disturb(tasks, i, FALSE))
    /\ ret' = [NoRet EXCEPT !.call = "upsert", !.page = id,
                            !.T = IF tk.pageId # 0 /\ Exists(tk.pageId)
                                  THEN pages[tk.pageId].visitCount ELSE 0]
    /\ UNCHANGED <<sessionVars, trackerVars, serviceVars, now, events, isIdle, ops, returned, ended, bound>>

\* handlePageView after addEvent: activeTabs.set and startTabActivity
PageViewRebind(tk) ==
    LET tabs == [activeTabs EXCEPT ![tk.tab] =
                    [pageId |-> tk.pageId,
                     isVisible |-> (currentFocusedTab = tk.tab),
                     isIdle |-> isIdle]]
    IN Result(IF currentFocusedTab = tk.tab /\ ~isIdle
              THEN startTabActivity(tk, tabs, currentFocusedTab, isIdle, tk.tab)
              ELSE FreeTask,
              tabs, currentFocusedTab)

\* addEvent resolves in handlePageView
PageViewLogged(i) ==
    LET tk == tasks[i] IN
    /\ i <= Len(tasks)
    /\ tk.pc = "EV" /\ tk.h = "PV"
    /\ events' = AddEvent(tk.pageId, "page_view")
    /\ Continue(i, tk, PageViewRebind(tk),
                Replaced(Disturb(tasks, i, FALSE), tk.tab))
    /\ bound' = [bound EXCEPT ![tk.tab] = @ \cup {tk.pageId}]
    /\ ret' = NoRet
    /\ UNCHANGED <<sessionVars, trackerVars, serviceVars, now, pages, isIdle, ops, returned, ended>>

\* addEvent resolves in handleTabFocusGain
FocusGainLogged(i) ==
    LET tk == tasks[i] IN
    /\ i <= Len(tasks)
    /\ tk.pc = "EV" /\ tk.h = "FG"
    /\ events' = AddEvent(tk.pageId, "focus_gain")
    /\ Continue(i, tk,
                Result(IF ~isIdle
                       THEN startTabActivity(tk, activeTabs, currentFocusedTab,
                                             isIdle, tk.tab)
                       ELSE FreeTask,
                       activeTabs, currentFocusedTab),
                Disturb(tasks, i, FALSE))
    /\ ret' = NoRet
    /\ UNCHANGED <<sessionVars, trackerVars, serviceVars, now, pages, isIdle, ops, returned, ended, bound>>

\* addEvent resolves in handleTabClose
TabCloseLogged(i) ==
    LET tk == tasks[i] IN
    /\ i <= Len(tasks)
    /\ tk.pc = "EV" /\ tk.h = "TC"
    /\ events' = AddEvent(tk.pageId, "tab_close")
    /\ Continue(i, tk,
                Result(FreeTask,
                       [activeTabs EXCEPT ![tk.tab] = NoEntry],
                       IF currentFocusedTab = tk.tab THEN NoTab
                       ELSE currentFocusedTab),
                Replaced(Disturb(tasks, i, FALSE), tk.tab))
    /\ bound' = [bound EXCEPT ![tk.tab] = {}]
    /\ ret' = NoRet
    /\ UNCHANGED <<sessionVars, trackerVars, serviceVars, now, pages, isIdle, ops, returned, ended>>

\* startPageActivity: db.pages.get resolves
StartGet(i) ==
    LET tk == tasks[i]
        seen == IF Exists(tk.pageId)
                THEN pages[tk.pageId].currentSessionStart ELSE None
    IN
    /\ i <= Len(tasks)
    /\ tk.pc = "S1"
    /\ Continue(i, tk,
                Result(IF StartReturnsEarly(tk.pageId)
                       THEN FreeTask
                       ELSE [tk EXCEPT !.pc = "S2", !.at = now, !.saw = seen],
                       activeTabs, currentFocusedTab),
                Disturb(tasks, i, FALSE))
    /\ ret' = IF ~Exists(tk.pageId)
              THEN [NoRet EXCEPT !.call = "startUnknown", !.page = tk.pageId]
              ELSE IF seen # None
              THEN [NoRet EXCEPT !.call = "startNoop", !.page = tk.pageId, !.T = seen]
              ELSE NoRet
    /\ ended' = SetEnded(tk.pageId, FALSE)
    /\ UNCHANGED <<sessionVars, trackerVars, serviceVars, now, pages, events, isIdle, ops, returned, bound>>

\* startPageActivity: db.pages.update resolves
StartWrite(i) ==
    LET tk == tasks[i] IN
    /\ i <= Len(tasks)
    /\ tk.pc = "S2"
    /\ pages' = UpdateRow(tk.pageId, StartUpdate(pages[tk.pageId], tk))
    /\ Continue(i, tk, Result(FreeTask, activeTabs, currentFocusedTab),
                Disturb(tasks, i, FALSE))
    /\ ret' = NoRet
    /\ ended' = SetEnded(tk.pageId, FALSE)
    /\ UNCHANGED <<sessionVars, trackerVars, serviceVars, now, events, isIdle, ops, returned, bound>>

\* handleWindowFocusChanged: chrome.tabs.query resolves with the window's
\* active tab (NoTab: no tabs[0])
TabsQueried(i, t) ==
    LET tk == [tasks[i] EXCEPT !.tab = t,
                               !.pre = IF tasks[i].iso /\ t # NoTab
                                      THEN AccruingPage(t) ELSE 0]
    IN
    /\ i <= Len(tasks)
    /\ tasks[i].pc = "WQ"
    /\ Continue(i, tk,
                IF t = NoTab
                THEN Result(FreeTask, activeTabs, currentFocusedTab)
                ELSE handleTabFocusGain(tk, t),
                Disturb(tasks, i, FALSE))
    /\ ret' = NoRet
    /\ UNCHANGED <<sessionVars, trackerVars, serviceVars, now, pages, events, isIdle, ops, returned, ended, bound>>

\* BackgroundService as constructed: tracking is enabled, nothing is answered
\* and no clear is in progress
NoTxn == [step |-> "none"]

NoResponse == [call |-> "-", arg |-> 0, value |-> 0]

\* a BadgeManager no tab change has reached yet
NoBadge == [currentTabId |-> NoTab, currentTabTotalTime |-> 0]

ServiceRunning ==
    /\ isTrackingEnabled = TRUE
    /\ response = NoResponse
    /\ txn = NoTxn
    /\ wiped = {}
    /\ badge = NoBadge

\* --------------------------------------- IdleTracker as constructed
NoNotified == [reported |-> FALSE, flip |-> FALSE, n |-> 0, calls |-> << >>]

NotCleaned == [done |-> FALSE, isIdle |-> FALSE]

\* the tracker TabManager constructs: init() has registered the first bound
\* function, and handleIdleChange is the one callback
TrackerRunning ==
    /\ callbacks = <<[throws |-> FALSE]>>
    /\ hostListeners = {1}
    /\ hostIdle = FALSE
    /\ binds = 1
    /\ notified = NoNotified
    /\ cleaned = NotCleaned

\* ------------------------------------------------------- SessionManager
MaxCalls == 3                      \* SessionManager calls of one run

\* An IndexedDB key is a number, a string, a date or an array: a boolean is
\* none, and a row whose indexed property is one has no entry in that index.
ValidKey(v) == v \notin BOOLEAN

\* db.sessions.where('isActive').equals(key).toArray(): the ids of the rows
\* the index `isActive` of the schema lists under key
ByIsActive(key) ==
    {i \in 1..Len(sessions) :
        ValidKey(sessions[i].isActive) /\ sessions[i].isActive = key}

\* db.sessions.where('sessionId').equals(sid)
BySessionId(sid) == {i \in 1..Len(sessions) : sessions[i].sessionId = sid}

\* modify / update ({ endTime, isActive: false }) of the rows ids
CloseRows(ids, endTime) ==
    [i \in 1..Len(sessions) |->
        IF i \in ids
        THEN [sessions[i] EXCEPT !.endTime = endTime, !.isActive = FALSE]
        ELSE sessions[i]]

\* The row startSession adds.  via and after are history: the call that
\* started the session, and the session that was current when it was made.
NewSession(sid, startTime, via, after) ==
    [sessionId |-> sid, startTime |-> startTime, endTime |-> None,
     isActive |-> TRUE, via |-> via, after |-> after]

\* a request to db.sessions in flight, and the call that awaits it
Request(op, key, at, via, after) ==
    [op |-> op, key |-> key, at |-> at, via |-> via, after |-> after]

\* The requests are served in the order they were made: each is a
\* transaction on the one store `sessions`.
Served(c) == calls # << >> /\ c = Head(calls)

NoGot == [called |-> FALSE, id |-> None, prev |-> None, lazy |-> FALSE,
          quiet |-> FALSE]

\* another call than getCurrentSessionId acts
Noise == got' = [got EXCEPT !.quiet = FALSE]

\* startSession after `if (this.currentSessionId) await this.endSession()`:
\* a fresh id, Date.now(), and db.sessions.add is requested
StartNew(after, via, q) ==
    /\ currentSessionId' = issued + 1
    /\ sessionStartTime' = now
    /\ issued' = issued + 1
    /\ calls' = Append(q, Request("add", issued + 1, now, via, after))

\* endSession up to its await: the modify of the rows of the current session
EndCurrent(via, q) ==
    /\ calls' = Append(q, Request("modify", currentSessionId, now, via,
                                  currentSessionId))
    /\ UNCHANGED <<currentSessionId, sessionStartTime, issued>>

\* startSession up to its first await, called by via
StartSessionBody(via, q) ==
    IF currentSessionId # None THEN EndCurrent(via, q) ELSE StartNew(None, via, q)

\* getCurrentSessionId: `if (!this.currentSessionId)`, one that never starts
NeverStarts(cur) == FALSE

\* getCurrentSessionId: `if (!this.currentSessionId)`
LazyStart(cur) == cur = None

SessionCall ==
    /\ ops < MaxCalls
    /\ ops' = ops + 1
    /\ UNCHANGED <<trackerVars, serviceVars, now, pages, events, activeTabs, currentFocusedTab,
                   isIdle, tasks, returned, ended, bound, ret, fin>>

\* getCurrentSessionId(): startSession() is called and not awaited, and
\* this.currentSessionId is returned
getCurrentSessionId ==
    /\ SessionCall
    /\ IF LazyStart(currentSessionId)
       THEN StartSessionBody("get", calls)
       ELSE UNCHANGED <<currentSessionId, sessionStartTime, issued, calls>>
    /\ got' = [called |-> TRUE,
               id |-> currentSessionId',
               prev |-> IF got.quiet THEN got.id ELSE None,
               lazy |-> LazyStart(currentSessionId) \/ (got.quiet /\ got.lazy),
               quiet |-> TRUE]
    /\ UNCHANGED sessions

\* startSession()
startSession ==
    /\ SessionCall
    /\ StartSessionBody("start", calls)
    /\ Noise
    /\ UNCHANGED sessions

\* endSession()
endSession ==
    /\ SessionCall
    /\ IF currentSessionId = None
       THEN UNCHANGED <<currentSessionId, sessionStartTime, issued, calls>>
       ELSE EndCurrent("end", calls)
    /\ Noise
    /\ UNCHANGED sessions

\* SessionManager.initialize() up to its await: the query of the active rows
sessionInitialize ==
    /\ SessionCall
    /\ calls' = Append(calls, Request("query", 1, now, "init", None))
    /\ Noise
    /\ UNCHANGED <<sessions, currentSessionId, sessionStartTime, issued>>

SessionStep ==
    UNCHANGED <<trackerVars, serviceVars, now, pages, events, activeTabs, currentFocusedTab,
                isIdle, tasks, ops, returned, ended, bound, ret, fin>>

\* db.sessions.add is served; startSession returns
AddDone ==
    /\ SessionStep
    /\ calls # << >>
    /\ LET c == Head(calls)
       IN /\ c.op = "add"
          /\ sessions' = Append(sessions, NewSession(c.key, c.at, c.via, c.after))
          /\ calls' = Tail(calls)
          /\ IF c.via = "get" THEN UNCHANGED got ELSE Noise
    /\ UNCHANGED <<currentSessionId, sessionStartTime, issued>>

\* the updates initialize() requested that are still in flight
UpdatesLeft(q) == {k \in 1..Len(q) : q[k].op = "update"}

\* A modify of endSession, or an update of initialize(), is served.  endSession
\* then forgets the current session, and the startSession that awaited it goes
\* on; initialize() calls startSession after the last of its updates.
CloseDone ==
    /\ SessionStep
    /\ calls # << >>
    /\ LET c == Head(calls)
           rest == Tail(calls)
       IN /\ c.op \in {"modify", "update"}
          /\ sessions' = CloseRows(IF c.op = "modify" THEN BySessionId(c.key)
                                   ELSE {c.key} \cap (1..Len(sessions)), c.at)
          /\ IF c.op = "modify"
             THEN IF c.via = "end"
                  THEN /\ currentSessionId' = None
                       /\ sessionStartTime' = None
                       /\ calls' = rest
                       /\ UNCHANGED issued
                  ELSE StartNew(c.after, c.via, rest)
             ELSE IF UpdatesLeft(rest) = {}
                  THEN StartSessionBody("init", rest)
                  ELSE /\ calls' = rest
                       /\ UNCHANGED <<currentSessionId, sessionStartTime, issued>>
    /\ Noise

RECURSIVE Updates(_, _)
Updates(ids, at) ==
    IF ids = {} THEN << >>
    ELSE LET i == CHOOSE j \in ids : \A k \in ids : j <= k
         IN <<Request("update", i, at, "init", None)>> \o Updates(ids \ {i}, at)

\* initialize(): the query is served.  The rows found are updated, and
\* startSession is called after Promise.all; with no row found it is called
\* at once.
SessionsQueried ==
    /\ SessionStep
    /\ calls # << >>
    /\ LET c == Head(calls)
           activeSessions == ByIsActive(c.key)
       IN /\ c.op = "query"
          /\ IF activeSessions # {}
             THEN /\ calls' = Tail(calls) \o Updates(activeSessions, now)
                  /\ UNCHANGED <<currentSessionId, sessionStartTime, issued>>
             ELSE StartSessionBody("init", Tail(calls))
    /\ Noise
    /\ UNCHANGED sessions

\* the state SessionManager.initialize() leaves over an empty store:
\* BackgroundService.init() awaits it before tabManager.initialize()
SessionRunning ==
    /\ sessions = <<NewSession(1, 1, "init", None)>>
    /\ currentSessionId = 1
    /\ sessionStartTime = 1
    /\ calls = << >>
    /\ issued = 1
    /\ got = NoGot

\* what a run that has ended left in db.sessions: nothing, a session that was
\* closed, or a session that was not (the process was terminated)
PriorStores ==
    {<< >>,
     <<[NewSession(1, 0, "prior", None) EXCEPT !.endTime = 1, !.isActive = FALSE]>>,
     <<NewSession(1, 0, "prior", None)>>}

\* SessionManager as constructed, over the store of a prior run
InitSession ==
    /\ now = 1
    /\ pages = << >>
    /\ events = [p \in PageIds |-> [ty \in EventTypes |-> 0]]
    /\ activeTabs = [t \in Tabs |-> NoEntry]
    /\ currentFocusedTab = NoTab
    /\ isIdle = FALSE
    /\ tasks = << >>
    /\ ops = 0
    /\ returned = [p \in PageIds |-> 0]
    /\ ended = [p \in PageIds |-> FALSE]
    /\ bound = [t \in Tabs |-> {}]
    /\ ret = NoRet
    /\ fin = NoFin
    /\ sessions \in PriorStores
    /\ currentSessionId = None
    /\ sessionStartTime = None
    /\ calls = << >>
    /\ issued = Len(sessions)
    /\ got = NoGot
    /\ TrackerRunning
    /\ ServiceRunning

NextSession ==
    \/ getCurrentSessionId
    \/ startSession
    \/ endSession
    \/ sessionInitialize
    \/ AddDone
    \/ CloseDone
    \/ SessionsQueried
    \/ Tick

SpecSession == InitSession /\ [][NextSession]_vars

\* ----------------------------------------------------------- IdleTracker
MaxListeners == 3                  \* listeners registered with onIdleChange
MaxReports == 4                    \* host reports and IdleTracker calls of one run

\* notifyCallbacks with no try / catch: forEach ends at the first exception
NotifyUntilThrow(cbs, k) == \A j \in 1..(k - 1) : ~cbs[j].throws

\* notifyCallbacks: callback k of forEach is called, the exception of an
\* earlier one having been caught
Notified(cbs, k) == k \in 1..Len(cbs)

\* notifyCallbacks(): the values each callback is called with
notifyCallbacks(cbs, idle) ==
    [k \in 1..Len(cbs) |-> IF Notified(cbs, k) THEN <<idle>> ELSE << >>]

TrackerStep ==
    /\ ops < MaxReports
    /\ ops' = ops + 1
    /\ UNCHANGED <<sessionVars, serviceVars, now, pages, events, activeTabs,
                   currentFocusedTab, tasks, returned, ended, bound, ret, fin>>

\* onIdleChange(callback), of a callback that returns or throws
onIdleChange(throws) ==
    /\ TrackerStep
    /\ ~cleaned.done
    /\ Len(callbacks) < MaxListeners
    /\ callbacks' = Append(callbacks, [throws |-> throws])
    /\ UNCHANGED <<isIdle, hostListeners, binds, notified, cleaned, hostIdle>>

\* The host reports newState to the functions registered with
\* idle.onStateChanged, each one handleIdleStateChange bound to the tracker.
HostReport(newState) ==
    LET wasIdle == isIdle
        idle == (newState # "active")
    IN
    /\ TrackerStep
    /\ IF hostListeners # {}
       THEN /\ isIdle' = idle
            /\ notified' = [reported |-> TRUE, flip |-> wasIdle # idle,
                            n |-> Len(callbacks),
                            calls |-> IF wasIdle # idle
                                      THEN notifyCallbacks(callbacks, idle)
                                      ELSE [k \in 1..Len(callbacks) |-> << >>]]
       ELSE /\ notified' = [NoNotified EXCEPT
                               !.n = Len(callbacks),
                               !.calls = [k \in 1..Len(callbacks) |-> << >>]]
            /\ UNCHANGED isIdle
    /\ hostIdle' = idle
    /\ UNCHANGED <<callbacks, hostListeners, binds, cleaned>>

\* IdleTracker.cleanup()
trackerCleanup ==
    /\ TrackerStep
    /\ TrackerCleaned
    /\ UNCHANGED isIdle

\* IdleTracker as constructed
InitTracker ==
    /\ now = 1
    /\ pages = << >>
    /\ events = [p \in PageIds |-> [ty \in EventTypes |-> 0]]
    /\ activeTabs = [t \in Tabs |-> NoEntry]
    /\ currentFocusedTab = NoTab
    /\ isIdle = FALSE
    /\ tasks = << >>
    /\ ops = 0
    /\ returned = [p \in PageIds |-> 0]
    /\ ended = [p \in PageIds |-> FALSE]
    /\ bound = [t \in Tabs |-> {}]
    /\ ret = NoRet
    /\ fin = NoFin
    /\ SessionRunning
    /\ callbacks = << >>
    /\ hostListeners = {1}
    /\ hostIdle = FALSE
    /\ binds = 1
    /\ notified = NoNotified
    /\ cleaned = NotCleaned
    /\ ServiceRunning

NextTracker ==
    \/ \E throws \in BOOLEAN : onIdleChange(throws)
    \/ \E s \in {"active", "idle", "locked"} : HostReport(s)
    \/ trackerCleanup

SpecTracker == InitTracker /\ [][NextTracker]_vars

\* ------------------------------------------------------------ statistics
MaxRows == 2                       \* rows of db.pages a statistic is asked over
MaxLimit == 2                      \* the limit getTopDomains is called with

StartOfDay == 2                    \* the local midnight of startOfDay.getTime()

StatUrls == { MkUrl("a.com", "/x", "", ""),
              MkUrl("a.com", "/y", "", ""),
              MkUrl("b.com", "/", "", "") }

\* The rows a statistic is asked over.  committedBefore is history: the part
\* of totalActiveTime that endPageActivity added before StartOfDay.
StatRows ==
    [url : StatUrls, totalActiveTime : {0, 2}, currentSessionStart : {None, 1, 2},
     lastVisit : {1}, visitCount : {1, 2}, committedBefore : {0, 2}]

\* db.pages.toArray(): the rows there are
toArray(ps) == SelectSeq(ps, LAMBDA row : row # Gone)

RECURSIVE SumSeq(_)
SumSeq(s) == IF s = << >> THEN 0 ELSE Head(s) + SumSeq(Tail(s))

\* getTodayActiveTime: the reduce over db.pages.toArray()
TodayOf(page, at) ==
    page.totalActiveTime
    + (IF page.currentSessionStart # None /\ page.currentSessionStart >= StartOfDay
       THEN at - page.currentSessionStart
       ELSE 0)

getTodayActiveTime(ps, at) == SumSeq([p \in 1..Len(ps) |-> TodayOf(ps[p], at)])

\* getTopDomains: the Map built by forEach, an entry per domain in the order
\* the domains are first met
RECURSIVE DomainMap(_, _)
DomainMap(ps, map) ==
    IF ps = << >> THEN map
    ELSE LET page == Head(ps)
             domain == extractDomain(page.url)
             totalTime == page.totalActiveTime
             at == IF \E k \in 1..Len(map) : map[k].domain = domain
                   THEN CHOOSE k \in 1..Len(map) : map[k].domain = domain
                   ELSE 0
         IN DomainMap(Tail(ps),
              IF at = 0
              THEN Append(map, [domain |-> domain, totalTime |-> totalTime,
                                pageCount |-> 1, visitCount |-> page.visitCount])
              ELSE [map EXCEPT ![at] =
                      [domain |-> domain, totalTime |-> @.totalTime + totalTime,
                       pageCount |-> @.pageCount + 1,
                       visitCount |-> @.visitCount + page.visitCount]])

\* .sort((a, b) => b.totalTime - a.totalTime): stable, by insertion
RECURSIVE InsertByTime(_, _)
InsertByTime(sorted, e) ==
    IF sorted = << >> THEN <<e>>
    ELSE IF Head(sorted).totalTime >= e.totalTime
         THEN <<Head(sorted)>> \o InsertByTime(Tail(sorted), e)
         ELSE <<e>> \o sorted

RECURSIVE SortByTime(_, _)
SortByTime(s, sorted) ==
    IF s = << >> THEN sorted ELSE SortByTime(Tail(s), InsertByTime(sorted, Head(s)))

\* .slice(0, limit) for limit >= 0
Slice(s, limit) == SubSeq(s, 1, IF limit < Len(s) THEN limit ELSE Len(s))

getTopDomains(ps, limit) == Slice(SortByTime(DomainMap(ps, << >>), << >>), limit)

StatStep ==
    /\ ops < 2
    /\ ops' = ops + 1
    /\ UNCHANGED <<sessionVars, trackerVars, now, pages, events, activeTabs,
                   currentFocusedTab, isIdle, tasks, returned, ended, bound, ret, fin,
                   isTrackingEnabled, badge, txn, wiped>>

\* DatabaseService.getTopDomains(limit) over the rows of db.pages
CallTopDomains(limit) ==
    /\ StatStep
    /\ response' = [call |-> "getTopDomains", arg |-> limit,
                    value |-> getTopDomains(toArray(pages), limit)]

\* DatabaseService.getTodayActiveTime() over the rows of db.pages
CallTodayTime ==
    /\ StatStep
    /\ response' = [call |-> "getTodayActiveTime", arg |-> StartOfDay,
                    value |-> getTodayActiveTime(toArray(pages), now)]

\* a store of pages, at a time of the day that began at StartOfDay
InitStats ==
    /\ now \in StartOfDay..MaxTime
    /\ \E n \in 0..MaxRows : pages \in [1..n -> StatRows]
    /\ \A p \in 1..Len(pages) :
          /\ pages[p].committedBefore <= pages[p].totalActiveTime
          /\ pages[p].currentSessionStart <= now
    /\ events = [p \in PageIds |-> [ty \in EventTypes |-> 0]]
    /\ activeTabs = [t \in Tabs |-> NoEntry]
    /\ currentFocusedTab = NoTab
    /\ isIdle = FALSE
    /\ tasks = << >>
    /\ ops = 0
    /\ returned = [p \in PageIds |-> 0]
    /\ ended = [p \in PageIds |-> FALSE]
    /\ bound = [t \in Tabs |-> {}]
    /\ ret = NoRet
    /\ fin = NoFin
    /\ SessionRunning
    /\ TrackerRunning
    /\ ServiceRunning

NextStats ==
    \/ \E limit \in 0..MaxLimit : CallTopDomains(limit)
    \/ CallTodayTime

SpecStats == InitStats /\ [][NextStats]_vars

\* ------------------------------------------------------------- URL texts
\* The string cleanUrl is given, as a sequence of pieces: a word stands for
\* a run of letters, the other pieces are the delimiters the URL parser acts
\* on.  "https" is a special scheme; any other run of letters before the first
\* ":" is a scheme that is not special.
MaxUrlLen == 5

Words == {"https", "mailto", "a"}

Pieces == Words \cup {":", "/", "@", "?", "#"}

UrlTexts == UNION { [1..n -> Pieces] : n \in 0..MaxUrlLen }

\* the first index of s at or after `from` whose piece is in S, Len(s) + 1
\* when there is none
FirstIn(s, from, S) ==
    IF \E i \in from..Len(s) : s[i] \in S
    THEN CHOOSE i \in from..Len(s) :
            s[i] \in S /\ \A j \in from..(i - 1) : s[j] \notin S
    ELSE Len(s) + 1

\* the last index of s whose piece is c, 0 when there is none
LastOf(s, c) ==
    IF \E i \in 1..Len(s) : s[i] = c
    THEN CHOOSE i \in 1..Len(s) : s[i] = c /\ \A j \in (i + 1)..Len(s) : s[j] # c
    ELSE 0

From(s, i) == SubSeq(s, i, Len(s))

ParseFailure == [ok |-> FALSE, protocol |-> << >>, host |-> << >>, pathname |-> << >>]

\* the authority of a URL: credentials end at the last "@", the host ends at
\* the first ":", and what follows is the port, which must be digits (none
\* of the pieces is one)
ParseAuthority(authority, special) ==
    LET at == LastOf(authority, "@")
        hostport == From(authority, at + 1)
        colon == FirstIn(hostport, 1, {":"})
        host == SubSeq(hostport, 1, colon - 1)
        port == From(hostport, colon + 1)
    IN [ok |-> /\ port = << >>
               /\ (host = << >>) => (~special /\ at = 0 /\ colon > Len(hostport)),
        host |-> host]

\* new URL(text) with no base: protocol, host and pathname of the record, or
\* the TypeError
ParseUrl(text) ==
    LET colon == FirstIn(text, 1, Pieces \ Words)
        special == colon = 2 /\ text[1] = "https"
        rest == From(text, colon + 1)
        body == SubSeq(rest, 1, FirstIn(rest, 1, {"?", "#"}) - 1)
        slashes == FirstIn(body, 1, Pieces \ {"/"}) - 1
        skip == IF special THEN slashes ELSE 2
        after == From(body, skip + 1)
        pathAt == FirstIn(after, 1, {"/"})
        auth == ParseAuthority(SubSeq(after, 1, pathAt - 1), special)
        path == From(after, pathAt)
    IN IF ~(colon \in 2..Len(text) /\ text[colon] = ":") THEN ParseFailure
       ELSE IF special \/ slashes >= 2
       THEN IF ~auth.ok THEN ParseFailure
            ELSE [ok |-> TRUE,
                  protocol |-> SubSeq(text, 1, colon),
                  host |-> auth.host,
                  pathname |-> IF special /\ path = << >> THEN <<"/">> ELSE path]
       ELSE [ok |-> TRUE, protocol |-> SubSeq(text, 1, colon),
             host |-> << >>, pathname |-> body]

\* cleanUrl(url: string):
\* try { `${urlObj.protocol}//${urlObj.host}${urlObj.pathname}` } catch { url }
cleanUrlText(text) ==
    LET urlObj == ParseUrl(text)
    IN IF urlObj.ok
       THEN urlObj.protocol \o <<"/", "/">> \o urlObj.host \o urlObj.pathname
       ELSE text

\* cleanUrl is called on a text, and then on what it returned
ApplyCleanUrl ==
    /\ ops < 2
    /\ ops' = ops + 1
    /\ response' = [call |-> "cleanUrl", arg |-> response.value,
                    value |-> cleanUrlText(response.value)]
    /\ UNCHANGED <<sessionVars, trackerVars, now, pages, events, activeTabs,
                   currentFocusedTab, isIdle, tasks, returned, ended, bound, ret, fin,
                   isTrackingEnabled, badge, txn, wiped>>

InitUrl ==
    /\ now = 1
    /\ pages = << >>
    /\ events = [p \in PageIds |-> [ty \in EventTypes |-> 0]]
    /\ activeTabs = [t \in Tabs |-> NoEntry]
    /\ currentFocusedTab = NoTab
    /\ isIdle = FALSE
    /\ tasks = << >>
    /\ ops = 0
    /\ returned = [p \in PageIds |-> 0]
    /\ ended = [p \in PageIds |-> FALSE]
    /\ bound = [t \in Tabs |-> {}]
    /\ ret = NoRet
    /\ fin = NoFin
    /\ SessionRunning
    /\ TrackerRunning
    /\ isTrackingEnabled = TRUE
    /\ txn = NoTxn
    /\ wiped = {}
    /\ badge = NoBadge
    /\ \E text \in UrlTexts : response = [call |-> "-", arg |-> text, value |-> text]

NextUrl == ApplyCleanUrl

SpecUrl == InitUrl /\ [][NextUrl]_vars

\* ---------------------------------------------------------- specification
\* What chrome.tabs.query({}) and chrome.windows.get show of a tab at startup.
\* A tab that is not open, or shows a chrome:// page, is skipped by initialize().
Skipped == [open |-> FALSE, url |-> NoUrl, active |-> FALSE, focused |-> FALSE]

TabInfos == {Skipped} \cup [open : {TRUE}, url : Urls, active : BOOLEAN,
                            focused : BOOLEAN]

\* one window has the host focus and a window has one active tab
Browser(cfg) ==
    \A t, u \in Tabs :
        (cfg[t].active /\ cfg[t].focused /\ cfg[u].active /\ cfg[u].focused) => t = u

\* initialize() on an active tab: one that only looks at tab.active
ActiveAtStartup(info) == info.active

\* initialize(): `tab.active` and `window.focused` of chrome.windows.get
FocusedAtStartup(info) == info.active /\ info.focused

\* TabManager.initialize(), run by BackgroundService.init() at the time `at`
\* before any listener is registered: the loop over the tabs from tab t on;
\* st.idle is idleTracker.getIdleState()
RECURSIVE initialize(_, _, _, _)
initialize(t, cfg, at, st) ==
    IF t > MaxTabs THEN st
    ELSE IF ~cfg[t].open THEN initialize(t + 1, cfg, at, st)
    ELSE
      LET url == cleanUrl(cfg[t].url)
          found == FirstByUrlIn(st.pages, url)
          id == IF found # 0 THEN found ELSE Len(st.pages) + 1
          upserted ==
              IF found # 0
              THEN [st.pages EXCEPT ![id] =
                       UpsertUpdate(@, [at |-> at, vc |-> @.visitCount + 1])]
              ELSE Append(st.pages, NewPage(url, at))
          tabs == [st.tabs EXCEPT ![t] =
                      [pageId |-> id, isVisible |-> cfg[t].active, isIdle |-> st.idle]]
          focused == FocusedAtStartup(cfg[t])
          started ==
              IF focused /\ ~st.idle /\ upserted[id].currentSessionStart = None
              THEN [upserted EXCEPT ![id] = StartUpdate(@, [at |-> at])]
              ELSE upserted
      IN initialize(t + 1, cfg, at,
                    [pages |-> started, tabs |-> tabs,
                     foc |-> IF focused THEN t ELSE st.foc,
                     idle |-> st.idle])

Init ==
    /\ now = 1
    /\ \E cfg \in [Tabs -> TabInfos] :
          /\ Browser(cfg)
          /\ LET st == initialize(1, cfg, 1,
                                  [pages |-> << >>,
                                   tabs |-> [t \in Tabs |-> NoEntry],
                                   foc |-> NoTab, idle |-> FALSE])
             IN /\ pages = st.pages
                /\ activeTabs = st.tabs
                /\ currentFocusedTab = st.foc
                /\ bound = [t \in Tabs |->
                              IF Tracked(st.tabs, t) THEN {st.tabs[t].pageId} ELSE {}]
    /\ events = [p \in PageIds |-> [ty \in EventTypes |-> 0]]
    /\ isIdle = FALSE
    /\ tasks = << >>
    /\ ops = 0
    /\ returned = [p \in PageIds |-> 0]
    /\ ended = [p \in PageIds |-> FALSE]
    /\ ret = NoRet
    /\ fin = NoFin
    /\ SessionRunning
    /\ TrackerRunning
    /\ ServiceRunning

Resume ==
    \E i \in 1..MaxTasks :
        \/ EndGet(i)
        \/ EndWrite(i)
        \/ UpsertFind(i)
        \/ UpsertWrite(i)
        \/ PageViewLogged(i)
        \/ FocusGainLogged(i)
        \/ TabCloseLogged(i)
        \/ StartGet(i)
        \/ StartWrite(i)
        \/ \E t \in Tabs \cup {NoTab} : TabsQueried(i, t)

Next ==
    \/ \E t \in Tabs, url \in Urls : PageView(t, url)
    \/ \E t \in Tabs : TabFocusGain(t)
    \/ \E t \in Tabs : TabClose(t)
    \/ WindowFocusLost
    \/ WindowFocusGained
    \/ \E t \in Tabs, visible \in BOOLEAN : VisibilityChange(t, visible)
    \/ \E s \in {"active", "idle", "locked"} : IdleStateChange(s)
    \/ Tick
    \/ Resume

Spec == Init /\ [][Next]_vars

\* ---------------------------------------------------------- clearAllData
Tables == {"pages", "events", "sessions"}

\* clear() of a table: the rows go, the ++id key generator keeps its count
Cleared(table) ==
    CASE table = "pages" -> [p \in 1..Len(pages) |-> Gone]
      [] table = "events" -> [p \in PageIds |-> [ty \in EventTypes |-> 0]]
      [] table = "sessions" -> << >>

Content(table) ==
    CASE table = "pages" -> pages
      [] table = "events" -> events
      [] table = "sessions" -> sessions

\* the clears of three separate requests: each is visible as it is done
NotTransactional(t) == FALSE

\* db.transaction('rw', [db.pages, db.events, db.sessions], ...): while it is
\* in progress its writes are its own, and the requests of the other
\* transactions on the three tables wait
Transactional(t) == t.step # "none"

\* the table the clear empties after table
NextTable(table) ==
    CASE table = "pages" -> "events"
      [] table = "events" -> "sessions"
      [] table = "sessions" -> "commit"

\* the tables of the store after the clear of `done` has become visible
Wipe(done) ==
    /\ pages' = IF "pages" \in done THEN Cleared("pages") ELSE pages
    /\ events' = IF "events" \in done THEN Cleared("events") ELSE events
    /\ sessions' = IF "sessions" \in done THEN Cleared("sessions") ELSE sessions

ClearFrame ==
    UNCHANGED <<trackerVars, now, activeTabs, currentFocusedTab, isIdle, tasks, ops,
                returned, ended, bound, ret, fin, isTrackingEnabled, badge,
                currentSessionId, sessionStartTime, calls, issued, got>>

\* clearAllData(): the transaction starts
ClearBegin ==
    /\ txn.step = "none"
    /\ ops < MaxOps
    /\ calls = << >>
    /\ txn' = [step |-> "pages", before |-> [t \in Tables |-> Content(t)]]
    /\ wiped' = {}
    /\ response' = NoResponse
    /\ UNCHANGED <<trackerVars, now, pages, events, activeTabs, currentFocusedTab,
                   isIdle, tasks, returned, ended, bound, ret, fin,
                   isTrackingEnabled, badge, sessionVars>>
    /\ ops' = ops + 1

\* await db.<table>.clear() inside the transaction
ClearTable ==
    /\ txn.step \in Tables
    /\ txn' = [txn EXCEPT !.step = NextTable(txn.step)]
    /\ IF Transactional(txn)
       THEN UNCHANGED <<pages, events, sessions, wiped>>
       ELSE Wipe({txn.step}) /\ wiped' = wiped \cup {txn.step}
    /\ UNCHANGED response
    /\ ClearFrame

\* the transaction commits: the three clears become visible together
ClearCommit ==
    /\ txn.step = "commit"
    /\ txn' = NoTxn
    /\ Wipe(Tables \ wiped)
    /\ wiped' = Tables
    /\ response' = [call |-> "clearAllData", arg |-> 0, value |-> txn.before]
    /\ ClearFrame

\* a clear() rejects: the transaction aborts, clearAllData rejects
ClearFails ==
    /\ txn.step \in Tables
    /\ txn' = NoTxn
    /\ response' = [call |-> "clearFailed", arg |-> 0, value |-> txn.before]
    /\ UNCHANGED <<pages, events, sessions, wiped>>
    /\ ClearFrame

\* the requests of the handlers wait for the transaction
Unlocked == ~Transactional(txn)

ResumeUnlocked ==
    \E i \in 1..MaxTasks :
        \/ Unlocked /\ EndGet(i)
        \/ Unlocked /\ EndWrite(i)
        \/ Unlocked /\ FocusGainLogged(i)
        \/ Unlocked /\ StartGet(i)
        \/ Unlocked /\ StartWrite(i)

NextClear ==
    \/ \E t \in Tabs : TabFocusGain(t)
    \/ ResumeUnlocked
    \/ ClearBegin
    \/ ClearTable
    \/ ClearCommit
    \/ ClearFails

SpecClear == Init /\ [][NextClear]_vars

\* ------------------------------------------------- scenario: CLEAR_DATA
\* The CLEAR_DATA request arrives on a day that began at StartOfDay; no other
\* signal arrives until the statistics are asked for.
DayBreaks ==
    /\ response = NoResponse
    /\ txn = NoTxn
    /\ Tick

\* handleMessage, case CLEAR_DATA: await DatabaseService.clearAllData()
ClearDataReceived ==
    /\ now >= StartOfDay
    /\ isTrackingEnabled
    /\ ClearBegin

\* ... then await this.sessionManager.initialize()
ClearDataSession ==
    /\ response.call = "clearAllData"
    /\ calls = << >>
    /\ calls' = <<Request("query", 1, now, "init", None)>>
    /\ response' = [response EXCEPT !.call = "CLEAR_DATA:session"]
    /\ UNCHANGED <<trackerVars, now, pages, events, activeTabs, currentFocusedTab,
                   isIdle, tasks, ops, returned, ended, bound, ret, fin,
                   isTrackingEnabled, badge, txn, wiped,
                   sessions, currentSessionId, sessionStartTime, issued, got>>

\* ... then await this.tabManager.initialize(), which finds the tabs cfg open,
\* and the response { success: true } is sent
ClearDataTabs(cfg) ==
    /\ response.call = "CLEAR_DATA:session"
    /\ calls = << >>
    /\ Browser(cfg)
    /\ LET st == initialize(1, cfg, now,
                            [pages |-> pages, tabs |-> activeTabs,
                             foc |-> currentFocusedTab, idle |-> isIdle])
       IN /\ pages' = st.pages
          /\ activeTabs' = st.tabs
          /\ currentFocusedTab' = st.foc
    /\ response' = [call |-> "CLEAR_DATA", arg |-> 0, value |-> cfg]
    /\ UNCHANGED <<sessionVars, trackerVars, now, events, isIdle, tasks, ops,
                   returned, ended, bound, ret, fin, isTrackingEnabled, badge, txn, wiped>>

AfterClearData ==
    /\ response.call = "CLEAR_DATA"
    /\ isTrackingEnabled
    /\ UNCHANGED <<sessionVars, trackerVars, now, pages, events, activeTabs,
                   currentFocusedTab, isIdle, tasks, ops, returned, ended, bound,
                   ret, fin, isTrackingEnabled, badge, txn, wiped>>

\* handleMessage, case GET_STATS: topDomains of the response
GetStats ==
    /\ AfterClearData
    /\ response' = [call |-> "GET_STATS", arg |-> 10,
                    value |-> getTopDomains(toArray(pages), 10)]

\* handleMessage, case GET_TODAY_TIME: todayTime of the response
GetTodayTime ==
    /\ AfterClearData
    /\ response' = [call |-> "GET_TODAY_TIME", arg |-> StartOfDay,
                    value |-> getTodayActiveTime(toArray(pages), now)]

NextClearData ==
    \/ DayBreaks
    \/ ClearDataReceived
    \/ ClearTable
    \/ ClearCommit
    \/ ClearDataSession
    \/ SessionsQueried
    \/ CloseDone
    \/ AddDone
    \/ \E cfg \in [Tabs -> TabInfos] : ClearDataTabs(cfg)
    \/ GetStats
    \/ GetTodayTime

SpecClearData == Init /\ [][NextClearData]_vars

\* --------------------------------------------------------- pause / resume
\* handleMessage, case PAUSE_TRACKING: isTrackingEnabled = false, then
\* await this.tabManager.cleanup()
PauseTracking ==
    /\ isTrackingEnabled
    /\ Deliver
    /\ LET tk == New("CL", NoTab, NoUrl)
           r == cleanupLoop(tk, NoTab)
       IN /\ Continue(FreeSlot, tk, r, Disturb(tasks, FreeSlot, TRUE))
          /\ TrackerAfter(tk, r.tk)
    /\ isTrackingEnabled' = FALSE
    /\ ret' = NoRet
    /\ UNCHANGED <<sessionVars, now, pages, events, isIdle, returned, ended, bound,
                   response, txn, wiped, badge>>

\* handleMessage, case RESUME_TRACKING: isTrackingEnabled = true, then
\* await this.tabManager.initialize(), which finds the tabs cfg open; no
\* handler is in flight
ResumeTracking(cfg) ==
    /\ ~isTrackingEnabled
    /\ Quiescent
    /\ Browser(cfg)
    /\ isTrackingEnabled' = TRUE
    /\ LET st == initialize(1, cfg, now,
                            [pages |-> pages, tabs |-> activeTabs,
                             foc |-> currentFocusedTab, idle |-> isIdle])
       IN /\ pages' = st.pages
          /\ activeTabs' = st.tabs
          /\ currentFocusedTab' = st.foc
          /\ bound' = [t \in Tabs |->
                         IF Tracked(st.tabs, t)
                         THEN bound[t] \cup {st.tabs[t].pageId} ELSE bound[t]]
    /\ fin' = [NoFin EXCEPT !.h = "RESUME", !.cfg = cfg]
    /\ ret' = NoRet
    /\ UNCHANGED <<sessionVars, trackerVars, now, events, isIdle, tasks, ops,
                   returned, ended, response, txn, wiped, badge>>

ResumePause ==
    \E i \in 1..MaxTasks :
        \/ EndGet(i)
        \/ EndWrite(i)
        \/ FocusGainLogged(i)
        \/ TabCloseLogged(i)
        \/ StartGet(i)
        \/ StartWrite(i)

\* handleTabActivated returns at once while tracking is paused
TabActivated(t) ==
    /\ isTrackingEnabled
    /\ TabFocusGain(t)

\* handleTabRemoved has no such test
NextPause ==
    \/ \E t \in Tabs : TabActivated(t)
    \/ \E t \in Tabs : TabClose(t)
    \/ \E s \in {"active", "idle", "locked"} : IdleStateChange(s)
    \/ Tick
    \/ PauseTracking
    \/ \E cfg \in [Tabs -> TabInfos] : ResumeTracking(cfg)
    \/ ResumePause

SpecPause == Init /\ [][NextPause]_vars

\* ------------------------------------------------------ inbound requests
\* the request types of this model: four that handleMessage has a case for,
\* and one it has none for
RequestTypes == {"IS_TRACKING_ENABLED", "GET_TODAY_TIME", "GET_STATS",
                 "scroll_depth", "bogus"}

Null == [null |-> TRUE]

\* handleMessage(message): what the promise resolves to
handleMessage(type) ==
    IF ~isTrackingEnabled /\ type \notin {"IS_TRACKING_ENABLED", "RESUME_TRACKING"}
    THEN Null
    ELSE CASE type = "GET_TODAY_TIME" ->
                [todayTime |-> getTodayActiveTime(toArray(pages), now)]
           [] type = "GET_STATS" ->
                [topDomains |-> getTopDomains(toArray(pages), 10)]
           [] type = "IS_TRACKING_ENABLED" -> [enabled |-> isTrackingEnabled]
           [] type = "scroll_depth" -> Null
           [] OTHER -> Null

\* The listener of runtime.onMessage: handleMessage(...).then(response =>
\* sendResponse({ success: true, data: response })).  arg counts the calls of
\* sendResponse.
Message(type) ==
    /\ ops < MaxOps
    /\ ops' = ops + 1
    /\ response' = [call |-> type, arg |-> 1,
                    value |-> [success |-> TRUE, data |-> handleMessage(type)]]
    /\ UNCHANGED <<sessionVars, trackerVars, now, pages, events, activeTabs,
                   currentFocusedTab, isIdle, tasks, returned, ended, bound, ret,
                   fin, isTrackingEnabled, badge, txn, wiped>>

ResumeCleanup ==
    \E i \in 1..MaxTasks :
        \/ EndGet(i)
        \/ EndWrite(i)

NextMessage ==
    \/ \E type \in RequestTypes : Message(type)
    \/ PauseTracking
    \/ ResumeCleanup
    \/ Tick

SpecMessage == Init /\ [][NextMessage]_vars

\* --------------------------------------------------------------- startup
\* the state TabManager is constructed with, over an empty store
InitEmpty ==
    /\ now = 1
    /\ pages = << >>
    /\ events = [p \in PageIds |-> [ty \in EventTypes |-> 0]]
    /\ activeTabs = [t \in Tabs |-> NoEntry]
    /\ currentFocusedTab = NoTab
    /\ isIdle = FALSE
    /\ tasks = << >>
    /\ ops = 0
    /\ returned = [p \in PageIds |-> 0]
    /\ ended = [p \in PageIds |-> FALSE]
    /\ bound = [t \in Tabs |-> {}]
    /\ ret = NoRet
    /\ fin = NoFin
    /\ SessionRunning
    /\ TrackerRunning
    /\ ServiceRunning

\* BackgroundService.init() awaits tabManager.initialize(), which finds the
\* tabs cfg open
Startup(cfg) ==
    /\ ops = 0
    /\ Browser(cfg)
    /\ ops' = 1
    /\ LET st == initialize(1, cfg, now,
                            [pages |-> pages, tabs |-> activeTabs,
                             foc |-> currentFocusedTab, idle |-> isIdle])
       IN /\ pages' = st.pages
          /\ activeTabs' = st.tabs
          /\ currentFocusedTab' = st.foc
          /\ bound' = [t \in Tabs |->
                         IF Tracked(st.tabs, t) THEN {st.tabs[t].pageId} ELSE {}]
    /\ fin' = [NoFin EXCEPT !.h = "INIT", !.cfg = cfg]
    /\ ret' = NoRet
    /\ UNCHANGED <<sessionVars, trackerVars, serviceVars, now, events, isIdle, tasks, returned, ended>>

NextStartup == \E cfg \in [Tabs -> TabInfos] : Startup(cfg)

SpecStartup == InitEmpty /\ [][NextStartup]_vars

\* --------------------------------------------------------------- restart
\* The process was killed at KilledAt and is constructed again at RestartedAt.
\* The store is what the killed run left: the rows it had written, a row it
\* was accruing on still holding the currentSessionStart it set at KilledAt.
KilledAt == 1

RestartedAt == 2

CleanUrls == { cleanUrl(u) : u \in Urls }

PriorRow(url, open) ==
    [NewPage(url, KilledAt) EXCEPT
        !.currentSessionStart = IF open THEN KilledAt ELSE None]

PriorPages ==
    { ps \in UNION { [1..n -> { PriorRow(u, o) : u \in CleanUrls, o \in BOOLEAN }] :
                       n \in 1..2 } :
        \A i, j \in DOMAIN ps : ps[i].url = ps[j].url => i = j }

InitRestart ==
    /\ now = RestartedAt
    /\ pages \in PriorPages
    /\ events = [p \in PageIds |-> [ty \in EventTypes |-> 0]]
    /\ activeTabs = [t \in Tabs |-> NoEntry]
    /\ currentFocusedTab = NoTab
    /\ isIdle = FALSE
    /\ tasks = << >>
    /\ ops = 0
    /\ returned = [p \in PageIds |-> 0]
    /\ ended = [p \in PageIds |-> FALSE]
    /\ bound = [t \in Tabs |-> {}]
    /\ ret = NoRet
    /\ fin = NoFin
    /\ SessionRunning
    /\ TrackerRunning
    /\ ServiceRunning

\* init() has registered the listeners once tabManager.initialize() is done
Listening == ops > 0

FocusLostAfterRestart == Listening /\ WindowFocusLost

TabActivatedAfterRestart(t) == Listening /\ TabFocusGain(t)

ResumeAfterRestart ==
    \E i \in 1..MaxTasks :
        \/ EndGet(i)
        \/ EndWrite(i)
        \/ FocusGainLogged(i)
        \/ StartGet(i)
        \/ StartWrite(i)

NextRestart ==
    \/ \E cfg \in [Tabs -> TabInfos] : Startup(cfg)
    \/ FocusLostAfterRestart
    \/ \E t \in Tabs : TabActivatedAfterRestart(t)
    \/ ResumeAfterRestart
    \/ Tick

SpecRestart == InitRestart /\ [][NextRestart]_vars

\* ----------------------------------------------------------------- badge
\* TabManager of src/lib/background: handleTabFocusGain looks the page's total
\* up for the badge between addEvent and startTabActivity.
\* BadgeManager's own tabs.onActivated listener, registered by its
\* constructor and so called before BackgroundService's
handleTabChange(t) ==
    IF badge.currentTabId # t
    THEN [currentTabId |-> t, currentTabTotalTime |-> 0]
    ELSE badge

\* BadgeManager.setCurrentTabData(t, totalTime, url)
setCurrentTabData(t, totalTime) ==
    IF t = badge.currentTabId
    THEN [badge EXCEPT !.currentTabTotalTime = totalTime]
    ELSE badge

\* getTabTotalTime(url of the row pageId):
\* (await db.pages.where('url').equals(pageUrl).first()).totalActiveTime
getTabTotalTime(pageId) ==
    pages[FirstByUrlIn(pages, pages[pageId].url)].totalActiveTime

\* tabs.onActivated reaches BadgeManager and then handleTabFocusGain
BadgeTabActivated(t) ==
    /\ Deliver
    /\ LET tk == [New("FG", t, NoUrl) EXCEPT
                      !.pre = IF tasks = << >> THEN AccruingPage(t) ELSE 0]
       IN Continue(FreeSlot, tk, handleTabFocusGain(tk, t),
                   Disturb(tasks, FreeSlot, TRUE))
    /\ badge' = handleTabChange(t)
    /\ ret' = NoRet
    /\ UNCHANGED <<sessionVars, trackerVars, isTrackingEnabled, response, txn,
                   wiped, now, pages, events, isIdle, returned, ended, bound>>

\* addEvent resolves in handleTabFocusGain: resetTabTime, and getTabTotalTime
\* is awaited
BadgeFocusGainLogged(i) ==
    LET tk == tasks[i] IN
    /\ i <= Len(tasks)
    /\ tk.pc = "EV" /\ tk.h = "FG"
    /\ events' = AddEvent(tk.pageId, "focus_gain")
    /\ Continue(i, tk,
                Result([tk EXCEPT !.pc = "TT"], activeTabs, currentFocusedTab),
                Disturb(tasks, i, FALSE))
    /\ ret' = NoRet
    /\ UNCHANGED <<sessionVars, trackerVars, serviceVars, now, pages, isIdle,
                   ops, returned, ended, bound>>

\* getTabTotalTime resolves: setCurrentTabData, then startTabActivity unless
\* the host is idle
TotalTimeFound(i) ==
    LET tk == tasks[i] IN
    /\ i <= Len(tasks)
    /\ tk.pc = "TT"
    /\ Exists(tk.pageId)
    /\ badge' = setCurrentTabData(tk.tab, getTabTotalTime(tk.pageId))
    /\ Continue(i, tk,
                Result(IF ~isIdle
                       THEN startTabActivity(tk, activeTabs, currentFocusedTab,
                                             isIdle, tk.tab)
                       ELSE FreeTask,
                       activeTabs, currentFocusedTab),
                Disturb(tasks, i, FALSE))
    /\ ret' = NoRet
    /\ UNCHANGED <<sessionVars, trackerVars, isTrackingEnabled, response, txn,
                   wiped, now, pages, events, isIdle, ops, returned, ended, bound>>

\* getTabTotalTime rejects (the read fails, or no row has the url and
\* page.totalActiveTime throws): no try encloses the await, so
\* handleTabFocusGain rejects there
TotalTimeFails(i) ==
    LET tk == tasks[i] IN
    /\ i <= Len(tasks)
    /\ tk.pc = "TT"
    /\ Continue(i, tk, Result(FreeTask, activeTabs, currentFocusedTab),
                Disturb(tasks, i, FALSE))
    /\ ret' = [NoRet EXCEPT !.call = "lookupFailed", !.page = tk.pageId]
    /\ UNCHANGED <<sessionVars, trackerVars, serviceVars, now, pages, events,
                   isIdle, ops, returned, ended, bound>>

ResumeBadge ==
    \E i \in 1..MaxTasks :
        \/ EndGet(i)
        \/ EndWrite(i)
        \/ BadgeFocusGainLogged(i)
        \/ TotalTimeFound(i)
        \/ TotalTimeFails(i)
        \/ StartGet(i)
        \/ StartWrite(i)

NextBadge ==
    \/ \E t \in Tabs : BadgeTabActivated(t)
    \/ ResumeBadge
    \/ Tick

SpecBadge == Init /\ [][NextBadge]_vars

\* -------------------------------------------------------- reconciliation
\* The interval BackgroundService.init() sets.  saveCurrentSessions() returns
\* when tracking is off or getCurrentTab() is undefined, else it awaits
\* saveCurrentActivity(currentTab.tabId), which suspends in endTabActivity.
\* The first call comes one interval after startup.
SaveCurrentSessions ==
    /\ now > 1
    /\ isTrackingEnabled
    /\ Tracked(activeTabs, currentFocusedTab)
    /\ Deliver
    /\ LET t == currentFocusedTab
           pageId == activeTabs[t].pageId
           tk == [New("SV", t, NoUrl) EXCEPT
                      !.pre = IF tasks = << >> /\ ~EndReturnsZero(pageId)
                              THEN pageId ELSE 0]
       IN Start(tk, endTabActivity(tk, t))

ResumeSave ==
    \E i \in 1..MaxTasks :
        \/ EndGet(i)
        \/ EndWrite(i)
        \/ FocusGainLogged(i)
        \/ StartGet(i)
        \/ StartWrite(i)

NextSave ==
    \/ SaveCurrentSessions
    \/ \E t \in Tabs : TabFocusGain(t)
    \/ \E s \in {"idle", "active"} : IdleStateChange(s)
    \/ ResumeSave
    \/ Tick

SpecSave == Init /\ [][NextSave]_vars

\* ---------------------------------------------------------- the interval
\* Time in units of the interval of setInterval(..., 30000): each step of the
\* clock is one interval, and the timer calls saveCurrentSessions() at it.
\* The handlers take less than an interval: none is in flight when the clock
\* steps.
TickInterval == 1

\* saveCurrentSessions() goes on to saveCurrentActivity
TimerSaves == isTrackingEnabled /\ Tracked(activeTabs, currentFocusedTab)

IntervalElapses ==
    /\ Quiescent
    /\ now < MaxTime
    /\ now' = now + TickInterval
    /\ IF TimerSaves
       THEN LET t == currentFocusedTab
                pageId == activeTabs[t].pageId
                tk == [New("SV", t, NoUrl) EXCEPT
                           !.pre = IF ~EndReturnsZero(pageId) THEN pageId ELSE 0]
            IN Continue(FreeSlot, tk, endTabActivity(tk, t), tasks)
       ELSE /\ fin' = NoFin
            /\ UNCHANGED <<activeTabs, currentFocusedTab, tasks>>
    /\ ret' = NoRet
    /\ UNCHANGED <<sessionVars, trackerVars, serviceVars, pages, events, isIdle,
                   ops, returned, ended, bound>>

NextTimer ==
    \/ IntervalElapses
    \/ \E t \in Tabs : TabFocusGain(t)
    \/ WindowFocusLost
    \/ \E s \in {"idle", "active"} : IdleStateChange(s)
    \/ ResumeSave

SpecTimer == Init /\ [][NextTimer]_vars

\* ----------------------------------------------------- content visibility
\* Only VISIBILITY_CHANGE messages arrive: the content scripts' reports
\* (visibilitychange, focus, blur, pagehide, pageshow) of the tabs.
ResumeVisible ==
    \E i \in 1..MaxTasks :
        \/ EndGet(i)
        \/ EndWrite(i)
        \/ FocusGainLogged(i)
        \/ StartGet(i)
        \/ StartWrite(i)

NextVisible ==
    \/ \E t \in Tabs, visible \in BOOLEAN : VisibilityChange(t, visible)
    \/ ResumeVisible
    \/ Tick

SpecVisible == Init /\ [][NextVisible]_vars

\* ------------------------------------------------- startup, host idle
\* The process is constructed while the host is in any idle state: the
\* IdleTracker constructor sets the detection interval and adds its listener,
\* isIdle is the field's initial false, chrome.idle.queryState is not called.
InitHost ==
    /\ now = 1
    /\ pages = << >>
    /\ events = [p \in PageIds |-> [ty \in EventTypes |-> 0]]
    /\ activeTabs = [t \in Tabs |-> NoEntry]
    /\ currentFocusedTab = NoTab
    /\ isIdle = FALSE
    /\ tasks = << >>
    /\ ops = 0
    /\ returned = [p \in PageIds |-> 0]
    /\ ended = [p \in PageIds |-> FALSE]
    /\ bound = [t \in Tabs |-> {}]
    /\ ret = NoRet
    /\ fin = NoFin
    /\ SessionRunning
    /\ callbacks = <<[throws |-> FALSE]>>
    /\ hostListeners = {1}
    /\ binds = 1
    /\ notified = NoNotified
    /\ cleaned = NotCleaned
    /\ hostIdle \in BOOLEAN
    /\ ServiceRunning

\* chrome.idle.onStateChanged, once init() is over
IdleReportAfterStartup(newState) ==
    /\ Listening
    /\ IdleStateChange(newState)

\* the only handler that can be suspended here is the one an idle report
\* starts, which closes accruals
ResumeHost ==
    \E i \in 1..MaxTasks :
        \/ EndGet(i)
        \/ EndWrite(i)

NextHost ==
    \/ \E cfg \in [Tabs -> TabInfos] : Startup(cfg)
    \/ \E s \in {"active", "idle", "locked"} : IdleReportAfterStartup(s)
    \/ ResumeHost
    \/ Tick

SpecHost == InitHost /\ [][NextHost]_vars

\* --------------------------------------------------------------- suspend
\* The host signals chrome.runtime.onSuspend and then terminates the process.
\* setupEventListeners registers listeners for tabs.onActivated, tabs.onUpdated,
\* tabs.onRemoved and windows.onFocusChanged only: nothing runs on the signal,
\* the suspended handlers are gone with the process, the store is as it was.
Suspend ==
    /\ fin.h # "SUSPEND"
    /\ tasks' = << >>
    /\ fin' = [NoFin EXCEPT !.h = "SUSPEND"]
    /\ ret' = NoRet
    /\ UNCHANGED <<sessionVars, trackerVars, serviceVars, now, pages, events, activeTabs, currentFocusedTab, isIdle, ops,
                   returned, ended, bound>>

NextSuspend ==
    \/ Tick
    \/ Suspend

SpecSuspend == Init /\ [][NextSuspend]_vars

\* ------------------------------------------------ failing storage writes
\* Who receives the rejection of the promise of handler h.  handleIdleChange
\* calls endTabActivity / startTabActivity without await and without catch, and
\* has returned by then: nobody.  The other handlers are awaited by the
\* listener BackgroundService registered, whose promise is rejected in turn.
Receiver(h) == IF h \in {"IE", "IS"} THEN "nobody" ELSE "listener"

\* the handler of task i ends with the exception of a rejected db.pages.update;
\* nothing of the handler after the await runs
Rejected(i, tk) ==
    /\ Continue(i, tk, Result(FreeTask, activeTabs, currentFocusedTab),
                Disturb(tasks, i, FALSE))
    /\ ret' = [NoRet EXCEPT !.call = "writeFailed", !.page = tk.pageId,
                            !.to = Receiver(tk.h)]
    /\ UNCHANGED <<sessionVars, trackerVars, serviceVars, now, pages, events, isIdle, ops, returned, ended, bound>>

\* endPageActivity: db.pages.update rejects
EndWriteFails(i) ==
    /\ i <= Len(tasks)
    /\ tasks[i].pc = "E2"
    /\ Rejected(i, tasks[i])

\* startPageActivity: db.pages.update rejects
StartWriteFails(i) ==
    /\ i <= Len(tasks)
    /\ tasks[i].pc = "S2"
    /\ Rejected(i, tasks[i])

ResumeFail ==
    \E i \in 1..MaxTasks :
        \/ EndGet(i)
        \/ EndWrite(i)
        \/ EndWriteFails(i)
        \/ FocusGainLogged(i)
        \/ StartGet(i)
        \/ StartWrite(i)
        \/ StartWriteFails(i)

NextFail ==
    \/ \E t \in Tabs : TabFocusGain(t)
    \/ \E s \in {"active", "idle", "locked"} : IdleStateChange(s)
    \/ Tick
    \/ ResumeFail

SpecFail == Init /\ [][NextFail]_vars

\* ------------------------------------- DatabaseService called on its own
\* DatabaseService.upsertPage(url, title) called from outside the handlers
CallUpsert(url) ==
    /\ Deliver
    /\ LET tk == New("DB", 0, url)
       IN Start(tk, Result(Go(tk, "U1", 0), activeTabs, currentFocusedTab))

\* DatabaseService.startPageActivity(pageId)
CallStart(pageId) ==
    /\ Deliver
    /\ LET tk == New("DB", 0, NoUrl)
       IN Start(tk, Result(Go(tk, "S1", pageId), activeTabs, currentFocusedTab))

\* DatabaseService.endPageActivity(pageId)
CallEnd(pageId) ==
    /\ Deliver
    /\ LET tk == New("DB", 0, NoUrl)
       IN Start(tk, Result(Go(tk, "E1", pageId), activeTabs, currentFocusedTab))

ResumeDB ==
    \E i \in 1..MaxTasks :
        \/ EndGet(i)
        \/ EndWrite(i)
        \/ UpsertFind(i)
        \/ UpsertWrite(i)
        \/ StartGet(i)
        \/ StartWrite(i)

NextDB ==
    \/ \E url \in Urls : CallUpsert(url)
    \/ \E pageId \in PageIds : CallStart(pageId)
    \/ \E pageId \in PageIds : CallEnd(pageId)
    \/ Tick
    \/ ResumeDB

SpecDB == Init /\ [][NextDB]_vars

\* ------------------------------------------- scenario: one navigation
FocusedMs == 5000   \* how long the tab stays focused after the navigation

NavTab == 1
NavUrl == MkUrl("a.com", "/x", "?q=1", "")

\* after startup the tab has the focus and no row is keyed by the url yet
InitNav ==
    /\ Init
    /\ currentFocusedTab = NavTab
    /\ FirstByUrl(cleanUrl(NavUrl)) = 0

\* the host signals the load: tabs.onUpdated with status complete, or the
\* content script's PAGE_VIEW message; both call handlePageView(tab, url)
NavPageView ==
    /\ ops < 2
    /\ now = 1
    /\ Len(tasks) < MaxTasks
    /\ ops' = ops + 1
    /\ LET tk == New("PV", NavTab, NavUrl)
       IN Start(tk, handlePageView(tk, NavTab))

\* the tab stays focused and visible, the host not idle
NavAccrue ==
    /\ ops \in {1, 2}
    /\ now = 1
    /\ Quiescent
    /\ now' = now + FocusedMs
    /\ ret' = NoRet
    /\ fin' = NoFin
    /\ UNCHANGED <<sessionVars, trackerVars, serviceVars, pages, events, activeTabs, currentFocusedTab, isIdle, tasks, ops,
                   returned, ended, bound>>

\* the window loses the focus: handleWindowFocusChanged(WINDOW_ID_NONE)
NavFocusLost ==
    /\ ops \in {1, 2}
    /\ now > 1
    /\ ops' = 3
    /\ LET tk == New("WF", 0, NoUrl)
       IN Start(tk, handleWindowFocusLost(tk))

NavDone == ops = 3 /\ Quiescent

ResumeNav ==
    \E i \in 1..MaxTasks :
        \/ EndGet(i)
        \/ EndWrite(i)
        \/ UpsertFind(i)
        \/ UpsertWrite(i)
        \/ PageViewLogged(i)
        \/ StartGet(i)
        \/ StartWrite(i)

NextNav ==
    \/ NavPageView
    \/ NavAccrue
    \/ NavFocusLost
    \/ ResumeNav

SpecNav == InitNav /\ [][NextNav]_vars

\* ---------------------------------------------- scenario: idle gating
IdleAfterMs == 2000     \* from the start of the accrual to the idle report
ActiveAfterMs == 3000   \* from the idle report to the active report

\* after startup a tab has the focus and its page is accruing
InitIdle ==
    /\ Init
    /\ currentFocusedTab # NoTab

\* time passes while no storage request is in flight
IdleElapse(d) ==
    /\ Quiescent
    /\ now' = now + d
    /\ ret' = NoRet
    /\ fin' = NoFin
    /\ UNCHANGED <<sessionVars, trackerVars, serviceVars, pages, events, activeTabs, currentFocusedTab, isIdle, tasks, ops,
                   returned, ended, bound>>

IdleWait ==
    /\ ops = 0 /\ now = 1
    /\ IdleElapse(IdleAfterMs)

\* chrome.idle.onStateChanged reports idle or locked
IdleReported ==
    /\ ops = 0 /\ now > 1
    /\ \E s \in {"idle", "locked"} : IdleStateChange(s)

ActiveWait ==
    /\ ops = 1 /\ now = 1 + IdleAfterMs
    /\ IdleElapse(ActiveAfterMs)

\* chrome.idle.onStateChanged reports active
ActiveReported ==
    /\ ops = 1 /\ now > 1 + IdleAfterMs
    /\ IdleStateChange("active")

IdleDone == ops = 2 /\ Quiescent

ResumeIdle ==
    \E i \in 1..MaxTasks :
        \/ EndGet(i)
        \/ EndWrite(i)
        \/ StartGet(i)
        \/ StartWrite(i)

NextIdle ==
    \/ IdleWait
    \/ IdleReported
    \/ ActiveWait
    \/ ActiveReported
    \/ ResumeIdle

SpecIdle == InitIdle /\ [][NextIdle]_vars

\* ------------------------------------------------------------- properties
Marker(pageId) == pages[pageId].currentSessionStart

\* a tracked tab bound to the page is focused, visible, and the host is not idle
ShouldAccrue(pageId) ==
    \E t \in Tabs :
        /\ Tracked(activeTabs, t)
        /\ activeTabs[t].pageId = pageId
        /\ currentFocusedTab = t
        /\ activeTabs[t].isVisible
        /\ ~isIdle

\* C1: when no handler is suspended at a storage await, a page has an open
\* marker if and only if a tracked tab bound to it is the focused tab, was last
\* reported visible, and the host is not idle.
C1_AccrualRule ==
    Quiescent =>
        \A p \in 1..Len(pages) : (Marker(p) # None) <=> ShouldAccrue(p)

\* C2: when two endPageActivity calls of the same open span overlap at their
\* awaits, the page's total after the second write is the total both read plus
\* the span once.
C2_SpanAddedOnce ==
    ret.call = "secondStop" =>
        pages[ret.page].totalActiveTime = ret.T + ret.e

C2_Witness ==
    /\ ret.call = "secondStop"
    /\ ret.e > 0
    /\ pages[ret.page].totalActiveTime > 0

\* C3: after an idle-enter report immediately followed by an idle-exit report on
\* a focused, visible tab, once both have run to their end the tab's page has
\* an open marker again.
C3_IdleCycleResumes ==
    fin.cycle =>
        /\ Tracked(activeTabs, fin.tab)
        /\ Marker(activeTabs[fin.tab].pageId) # None

\* C4: a page with no open marker has a totalActiveTime equal to the sum of
\* the values its endPageActivity calls returned.
C4_TotalIsSumOfReturned ==
    \A p \in 1..Len(pages) :
        Marker(p) = None => pages[p].totalActiveTime = returned[p]

C6_OneOpenPagePerTab ==
    /\ currentFocusedTab \in Tabs \cup {NoTab}
    /\ \A t \in Tabs :
          Cardinality({p \in bound[t] : Exists(p) /\ Marker(p) # None}) <= 1

\* a handler h that has run alone since it started, with a page noted at its start
Alone(tk, h) == tk.h = h /\ tk.iso /\ tk.pre # 0

\* C7: handleTabFocusGain(B) while another tab A is focused and accruing: B is
\* not recorded as focused while the endPageActivity of A's page is in flight;
\* from then until the handler's startPageActivity writes, B is the focused tab
\* and A's page has no open marker; when the handler completes B is the focused
\* tab and A's page has no open marker unless B is bound to it.
C7_FocusHandover ==
    /\ \A j \in 1..Len(tasks) :
          Alone(tasks[j], "FG") =>
             /\ tasks[j].pc \in {"E1", "E2"} => currentFocusedTab # tasks[j].tab
             /\ tasks[j].pc \in {"EV", "S1", "S2"} =>
                   /\ currentFocusedTab = tasks[j].tab
                   /\ Marker(tasks[j].pre) = None
    /\ (fin.h = "FG" /\ fin.page # 0) =>
          /\ currentFocusedTab = fin.tab
          /\ \/ Marker(fin.page) = None
             \/ /\ Tracked(activeTabs, fin.tab)
                /\ activeTabs[fin.tab].pageId = fin.page

C7_Witness ==
    /\ fin.h = "FG" /\ fin.page # 0
    /\ Marker(fin.page) = None
    /\ pages[fin.page].totalActiveTime > 0
    /\ Tracked(activeTabs, fin.tab)
    /\ Marker(activeTabs[fin.tab].pageId) # None

\* C8: an endPageActivity call that follows a returned endPageActivity call on
\* the same page, with no startPageActivity in between, returns 0 and leaves
\* the pages table as it is; it never reaches its update.
C8_EndIdempotent ==
    [][/\ ret'.call = "endAgain" =>
             /\ pages' = pages
             /\ returned' = returned
             /\ ret'.e = 0
       /\ \A j \in 1..Len(tasks') :
             tasks'[j].pc = "E2" => ~tasks'[j].again]_vars

C8_Witness ==
    /\ ret.call = "endAgain"
    /\ pages[ret.page].totalActiveTime > 0

\* C9: a startPageActivity call reaches its update only when the page exists and
\* the marker it read was not set; a call that reads a set marker, or finds no
\* page, returns with the pages table as it is, so the marker is still the
\* original start time.
C9_StartNoop ==
    /\ [](\A j \in 1..Len(tasks) :
             tasks[j].pc = "S2" =>
                /\ Exists(tasks[j].pageId)
                /\ tasks[j].saw = None)
    /\ [][/\ ret'.call \in {"startNoop", "startUnknown"} =>
                /\ pages' = pages
                /\ Len(tasks') = Len(tasks) - 1
          /\ ret'.call = "startNoop" =>
                pages'[ret'.page].currentSessionStart = ret'.T
          /\ ret'.call = "startUnknown" => ~Exists(ret'.page)]_vars

C9_Witness ==
    /\ ret.call = "startNoop"
    /\ ret.T < now

\* the page a completed handlePageView left the tab bound to
PageOf(t) == activeTabs[t].pageId

\* handlePageView run alone: until activeTabs.set the tab is bound to the page
\* it was bound to, and from upsertPage on that page has no open marker; when
\* the handler completes the tab is bound to the page keyed by the normalized url
PageViewOrder ==
    /\ \A j \in 1..Len(tasks) :
          Alone(tasks[j], "PV") =>
             /\ tasks[j].pc \in {"E1", "E2", "U1", "U2", "EV"} =>
                   PageOf(tasks[j].tab) = tasks[j].pre
             /\ tasks[j].pc \in {"U1", "U2", "EV"} =>
                   Marker(tasks[j].pre) = None
    /\ fin.h = "PV" =>
          /\ Tracked(activeTabs, fin.tab)
          /\ PageOf(fin.tab) = FirstByUrl(cleanUrl(fin.url))
          /\ pages[PageOf(fin.tab)].url.search = ""
          /\ pages[PageOf(fin.tab)].url.hash = ""
          /\ pages[PageOf(fin.tab)].url.host = fin.url.host
          /\ pages[PageOf(fin.tab)].url.pathname = fin.url.pathname

\* C10 as stated: ... and when the handler completes the page the tab was bound
\* to has no open marker.
C10_Navigation ==
    /\ PageViewOrder
    /\ (fin.h = "PV" /\ fin.page # 0) => Marker(fin.page) = None

\* C10, amended: ... and when the handler completes the page the tab was bound
\* to has no open marker, unless the new url normalizes to the url of that page.
C10_NavigationUnlessSamePage ==
    /\ PageViewOrder
    /\ (fin.h = "PV" /\ fin.page # 0 /\ PageOf(fin.tab) # fin.page) =>
          Marker(fin.page) = None

C10_Witness ==
    /\ fin.h = "PV" /\ fin.page # 0
    /\ PageOf(fin.tab) # fin.page
    /\ pages[fin.page].totalActiveTime > 0
    /\ Marker(PageOf(fin.tab)) # None

\* a row of the pages table per normalized url
OnePagePerUrl ==
    \A p, q \in 1..Len(pages) : pages[p].url = pages[q].url => p = q

\* C11: tabs whose urls have the same normalized form are bound to the same
\* page row, and every upsertPage of a handled page view leaves the visitCount
\* of that row one above what it was (1 for a new row).
C11_OneVisitPerPageView ==
    /\ \A t, u \in Tabs :
          (/\ Tracked(activeTabs, t) /\ Tracked(activeTabs, u)
           /\ pages[PageOf(t)].url = pages[PageOf(u)].url) => PageOf(t) = PageOf(u)
    /\ OnePagePerUrl
    /\ ret.call = "upsert" => pages[ret.page].visitCount = ret.T + 1

\* C12: after one navigation of the focused tab to https://a.com/x?q=1,
\* signalled by tabs.onUpdated, by the PAGE_VIEW message or by both, then
\* FocusedMs of focus and the loss of the focus, the row keyed https://a.com/x
\* has totalActiveTime = FocusedMs and visitCount = 1.
C12_OneNavigation ==
    NavDone =>
        LET p == FirstByUrl(MkUrl("a.com", "/x", "", ""))
        IN /\ p # 0
           /\ pages[p].totalActiveTime = FocusedMs
           /\ pages[p].visitCount = 1

\* C13: a focused visible tab accrues from startup; the host reports idle
\* IdleAfterMs later and active ActiveAfterMs after that, each report handled
\* before the next. Then the page's totalActiveTime has grown by IdleAfterMs
\* and its marker is open with the time of the active report.
C13_IdleGating ==
    IdleDone =>
        LET p == PageOf(currentFocusedTab)
        IN /\ pages[p].totalActiveTime = IdleAfterMs
           /\ Marker(p) = 1 + IdleAfterMs + ActiveAfterMs

C13_Witness ==
    /\ IdleDone
    /\ pages[PageOf(currentFocusedTab)].totalActiveTime = IdleAfterMs
    /\ Marker(PageOf(currentFocusedTab)) = now
    /\ now > 1 + IdleAfterMs

\* a step of a handleTabClose that runs alone
StepOfClose ==
    /\ Len(tasks) = 1 /\ Alone(tasks[1], "TC")
    /\ \/ fin'.h = "TC"
       \/ Len(tasks') = 1 /\ Alone(tasks'[1], "TC")

\* C14: handleTabClose on a tracked tab keeps the tab's in-memory state until
\* its page's accrual is committed; it logs the tab_close event only when the
\* page has no open marker; its last step adds exactly one tab_close event for
\* the page, removes the tab and clears the focus record if it was this tab;
\* none of its steps removes a page row or changes its url or visitCount or
\* lowers its totalActiveTime.
C14_TabClose ==
    /\ [](\A j \in 1..Len(tasks) :
             (Alone(tasks[j], "TC") /\ tasks[j].pc \in {"E1", "E2", "EV"}) =>
                /\ Tracked(activeTabs, tasks[j].tab)
                /\ PageOf(tasks[j].tab) = tasks[j].pre
                /\ tasks[j].pc = "EV" => Marker(tasks[j].pre) = None)
    /\ []((fin.h = "TC" /\ fin.page # 0) =>
             /\ ~Tracked(activeTabs, fin.tab)
             /\ currentFocusedTab # fin.tab
             /\ Exists(fin.page)
             /\ Marker(fin.page) = None)
    /\ [][/\ (fin'.h = "TC" /\ fin'.page # 0) =>
                /\ events' = [events EXCEPT ![fin'.page]["tab_close"] = @ + 1]
                /\ pages' = pages
          /\ StepOfClose =>
                /\ events' # events => fin'.h = "TC"
                /\ Len(pages') = Len(pages)
                /\ \A p \in 1..Len(pages) :
                      /\ pages'[p].url = pages[p].url
                      /\ pages'[p].visitCount = pages[p].visitCount
                      /\ pages'[p].totalActiveTime >= pages[p].totalActiveTime]_vars

C14_Witness ==
    /\ fin.h = "TC" /\ fin.page # 0
    /\ pages[fin.page].totalActiveTime > 0
    /\ events[fin.page]["tab_close"] = 1
    /\ currentFocusedTab = NoTab

\* what chrome showed of tab t: it is the active tab of the focused window
HostFocused(cfg, t) == cfg[t].open /\ cfg[t].active /\ cfg[t].focused

\* C15: after initialize() exactly the open trackable tabs are tracked, each
\* bound to the page of its normalized url and visible iff it is active; the
\* focused-tab record names a tab iff that tab is the active tab of the
\* focused window; a page has an open marker iff such a tab is bound to it.
C15_StartupRecovery ==
    fin.h = "INIT" =>
        /\ \A t \in Tabs :
              /\ Tracked(activeTabs, t) <=> fin.cfg[t].open
              /\ fin.cfg[t].open =>
                    /\ pages[PageOf(t)].url = cleanUrl(fin.cfg[t].url)
                    /\ activeTabs[t].isVisible = fin.cfg[t].active
              /\ currentFocusedTab = t <=> HostFocused(fin.cfg, t)
        /\ \A p \in 1..Len(pages) :
              Marker(p) # None <=>
                 \E t \in Tabs : HostFocused(fin.cfg, t) /\ PageOf(t) = p
        /\ OnePagePerUrl

\* one tab is active in an unfocused window, the other has the focus
C15_Witness ==
    /\ fin.h = "INIT"
    /\ \E t, u \in Tabs :
          /\ fin.cfg[t].open /\ fin.cfg[t].active /\ ~fin.cfg[t].focused
          /\ HostFocused(fin.cfg, u)
          /\ Marker(PageOf(t)) = None
          /\ Marker(PageOf(u)) # None

\* C16: when the process has terminated after the host's suspend signal, no
\* page has an open marker.
C16_NoMarkerSurvivesSuspend ==
    fin.h = "SUSPEND" => \A p \in 1..Len(pages) : Marker(p) = None

\* C17: when a storage write of startPageActivity or endPageActivity fails,
\* the rejection reaches the caller of the handler (or the write is retried).
C17_FailureNotDiscarded ==
    ret.call = "writeFailed" => ret.to # "nobody"


\* the rows of db.sessions with isActive = true
ActiveSessions == {i \in 1..Len(sessions) : sessions[i].isActive = TRUE}

\* a session that startSession started while another was current is stored
\* only after the rows of that other one were closed, at or after its start
PreviousEndedFirst ==
    \A i \in 1..Len(sessions) :
        sessions[i].after # None =>
            \A j \in BySessionId(sessions[i].after) :
                /\ sessions[j].isActive = FALSE
                /\ sessions[j].endTime >= sessions[j].startTime

\* C18: at any time at most one row of the session store has isActive = true,
\* under every interleaving of getCurrentSessionId, startSession, endSession
\* and initialize; and when startSession is called while a session is
\* current, that session's row has its endTime (not before its startTime) and
\* isActive = false before the row of the new session is added.
C18_OneActiveSession ==
    /\ Cardinality(ActiveSessions) <= 1
    /\ PreviousEndedFirst

\* C19: once initialize() has added the row of the new session, every row a
\* prior run left in the store has an endTime and isActive = false: the
\* session left active was closed before the new one was stored.
C19_StaleSessionClosed ==
    \A i \in 1..Len(sessions) :
        sessions[i].via = "init" =>
            \A j \in 1..Len(sessions) :
                sessions[j].via = "prior" =>
                    /\ sessions[j].isActive = FALSE
                    /\ sessions[j].endTime # None

\* C20: getCurrentSessionId never returns null; with no session current it
\* returns the id of the session it has just started; a call that follows
\* another with no other SessionManager call acting in between returns the
\* same id; and when no request is in flight the store holds exactly one row
\* with that id.
C20_CurrentSessionId ==
    /\ got.called => got.id # None
    /\ got.quiet => got.id = currentSessionId
    /\ (got.quiet /\ got.lazy /\ got.prev = None) => got.id = issued
    /\ (got.quiet /\ got.prev # None) => got.id = got.prev
    /\ (got.quiet /\ calls = << >>) => Cardinality(BySessionId(got.id)) = 1

\* getCurrentSessionId started a session, its row is stored, and a second
\* call has returned
C20_Witness ==
    /\ got.quiet
    /\ got.lazy
    /\ got.prev # None
    /\ calls = << >>
    /\ Cardinality(BySessionId(got.id)) = 1


\* C21: a host report that maps to the boolean the tracker already has calls
\* no listener; a report that flips the boolean calls every registered
\* listener exactly once, with the new value, the listeners registered after
\* one that throws included.
C21_NotifyOnTransition ==
    notified.reported =>
        /\ Len(notified.calls) = notified.n
        /\ \A k \in 1..Len(notified.calls) :
              notified.calls[k] = IF notified.flip THEN <<isIdle>> ELSE << >>

\* a report flipped the boolean while a listener that throws was registered
\* before another one
C21_Witness ==
    /\ notified.reported
    /\ notified.flip
    /\ \E j, k \in 1..notified.n :
          j < k /\ callbacks[j].throws /\ notified.calls[k] = <<isIdle>>

\* C22: after cleanup() no host report changes isIdle, and none calls a
\* listener that was registered.
C22_CleanupDetaches ==
    cleaned.done =>
        /\ isIdle = cleaned.isIdle
        /\ \A k \in 1..Len(notified.calls) : notified.calls[k] = << >>


\* the rows of db.pages of a domain
PagesOf(domain) == {p \in 1..Len(pages) : extractDomain(pages[p].url) = domain}

RECURSIVE SumOver(_, _)
SumOver(S, f) ==
    IF S = {} THEN 0
    ELSE LET x == CHOOSE y \in S : TRUE IN f[x] + SumOver(S \ {x}, f)

\* the time of a page: what is committed, and the accrual in progress up to now
TimeWithOpen ==
    [p \in 1..Len(pages) |->
        pages[p].totalActiveTime
        + (IF pages[p].currentSessionStart # None
           THEN now - pages[p].currentSessionStart ELSE 0)]

\* C23: getTopDomains(limit) returns at most limit entries, one per distinct
\* domain; each has totalTime = the sum over the domain's pages of
\* totalActiveTime plus (now - accrual start) for the pages with an open
\* marker, visitCount = the sum of their visitCounts, pageCount = their
\* number; the entries are in order of non-increasing totalTime.
C23_TopDomains ==
    response.call = "getTopDomains" =>
        LET top == response.value
        IN /\ Len(top) <= response.arg
           /\ \A j, k \in 1..Len(top) : top[j].domain = top[k].domain => j = k
           /\ \A j, k \in 1..Len(top) : j < k => top[j].totalTime >= top[k].totalTime
           /\ \A k \in 1..Len(top) :
                 /\ PagesOf(top[k].domain) # {}
                 /\ top[k].totalTime = SumOver(PagesOf(top[k].domain), TimeWithOpen)
                 /\ top[k].pageCount = Cardinality(PagesOf(top[k].domain))
                 /\ top[k].visitCount =
                        SumOver(PagesOf(top[k].domain),
                                [p \in 1..Len(pages) |-> pages[p].visitCount])

\* the time of a page that belongs to the day that began at StartOfDay
TimeOfToday ==
    [p \in 1..Len(pages) |->
        (pages[p].totalActiveTime - pages[p].committedBefore)
        + (IF pages[p].currentSessionStart # None
              /\ pages[p].currentSessionStart >= StartOfDay
           THEN now - pages[p].currentSessionStart ELSE 0)]

\* C24: getTodayActiveTime returns the active time of the current calendar
\* day: the time committed before today's midnight is left out, and an
\* accrual in progress counts (now - start) only when it started at or after
\* today's midnight.
C24_TodayActiveTime ==
    response.call = "getTodayActiveTime" =>
        response.value = SumOver(1..Len(pages), TimeOfToday)


\* a table is empty by the clear in progress while another one still holds
\* rows it had before the clear
PartialClear ==
    \E x, y \in Tables :
        /\ x \in wiped
        /\ y \notin wiped
        /\ Content(y) # Cleared(y)

\* the call that ends the clear with a failure leaves the three tables as
\* they were when it began
FailedClearKeepsRows ==
    (txn.step # "none" /\ response'.call = "clearFailed")
        => \A t \in Tables : Content(t)' = txn.before[t]

\* C25: clearAllData empties pages, events and sessions as one step: in no
\* state is one of the tables empty by the clear while another still holds
\* its rows, whatever handlers are suspended or resumed meanwhile; and a
\* clear that fails leaves the three tables with their rows.
C25_AtomicClear == [](~PartialClear) /\ [][FailedClearKeepsRows]_vars

\* the clear has committed over a store with pages, events and a session,
\* while a handler was suspended
C25_Witness ==
    /\ response.call = "clearAllData"
    /\ \A t \in Tables : response.value[t] # Cleared(t)
    /\ \A t \in Tables : Content(t) = Cleared(t)
    /\ tasks # << >>


\* C26: once CLEAR_DATA has completed, a GET_STATS that follows at once
\* answers with an empty topDomains list and a GET_TODAY_TIME with 0,
\* whatever tabs are open.
C26_EmptyAfterClear ==
    /\ response.call = "GET_STATS" => response.value = << >>
    /\ response.call = "GET_TODAY_TIME" => response.value = 0


\* PAUSE_TRACKING has completed and RESUME_TRACKING has not been received
Paused ==
    /\ ~isTrackingEnabled
    /\ \A i \in 1..Len(tasks) : tasks[i].h # "CL"

\* C27: from the completion of PAUSE_TRACKING until RESUME_TRACKING is
\* received no page has an open marker and TabManager holds no tab state,
\* whatever signals arrive and whatever handlers were in flight when the
\* pause was requested; RESUME_TRACKING enumerates the open tabs again and
\* opens the accrual of the active tab of the focused window.
C27_PauseResume ==
    /\ Paused =>
          /\ \A p \in 1..Len(pages) : pages[p].currentSessionStart = None
          /\ activeTabs = [t \in Tabs |-> NoEntry]
          /\ currentFocusedTab = NoTab
    /\ fin.h = "RESUME" =>
          \A t \in Tabs :
              /\ fin.cfg[t].open =>
                    /\ Tracked(activeTabs, t)
                    /\ pages[activeTabs[t].pageId].url = cleanUrl(fin.cfg[t].url)
              /\ (fin.cfg[t].open /\ FocusedAtStartup(fin.cfg[t]) /\ ~isIdle) =>
                    /\ currentFocusedTab = t
                    /\ pages[activeTabs[t].pageId].currentSessionStart # None


\* the request types handleMessage has a case for
Supported ==
    {"IS_TRACKING_ENABLED", "GET_TODAY_TIME", "GET_STATS", "scroll_depth",
     "click", "keydown", "PAUSE_TRACKING", "RESUME_TRACKING", "SET_BADGE_ENABLED",
     "EXPORT_DATA", "CLEAR_DATA", "page_view", "VISIBILITY_CHANGE"}

\* a request of a type that is not supported has been answered
UnknownAnswered == response.call \in RequestTypes \ Supported

\* the step that answers a request of an unsupported type changes nothing of
\* the store and of TabManager
UnknownChangesNothing ==
    (response'.call \in RequestTypes \ Supported /\ ops' # ops)
        => UNCHANGED <<pages, events, sessions, activeTabs, currentFocusedTab>>

\* C28: a request of an unknown or unsupported type gets exactly one
\* response, which reports an error (not a success), and the accounting
\* state is left as it was.
C28_UnknownRejected ==
    /\ [](UnknownAnswered => (response.arg = 1 /\ ~response.value.success))
    /\ [][UnknownChangesNothing]_vars

\* C29: after a kill with a row accruing and a later restart, no row's
\* totalActiveTime includes time the process was not running, and every row
\* accruing when initialize() completes is the page of the focused, visible
\* tab of the new run
NoDowntimeCounted ==
    \A p \in PageIds :
        Exists(p) => pages[p].totalActiveTime <= now - RestartedAt

OpenOnlyWhereAccruing ==
    fin.h = "INIT" =>
        \A p \in PageIds : (Exists(p) /\ Marker(p) # None) => ShouldAccrue(p)

C29_RestartRecovery == NoDowntimeCounted /\ OpenOnlyWhereAccruing

\* C30: when the total-time lookup made for the badge fails in
\* handleTabFocusGain, the page of the tab that gained the focus is accruing
\* once the handler is over, as it is when the lookup succeeds
LookupFailedAlone == ret.call = "lookupFailed" /\ fin.h = "FG"

C30_BadgeIsolation ==
    (LookupFailedAlone /\ StartCondition(activeTabs, currentFocusedTab, isIdle, fin.tab))
        => Marker(ret.page) # None

\* C31: cleanUrl gives one key to texts that differ only from the query
\* string on, and cleanUrl of what cleanUrl returned is that same text
WithoutQuery(text) == SubSeq(text, 1, FirstIn(text, 1, {"?", "#"}) - 1)

SameKeyWithoutQuery ==
    response.call = "cleanUrl" =>
        (ParseUrl(response.arg).ok =>
            cleanUrlText(WithoutQuery(response.arg)) = response.value)

Idempotent ==
    response.call = "cleanUrl" => cleanUrlText(response.value) = response.value

C31_CleanUrl == SameKeyWithoutQuery /\ Idempotent

\* C32: a saveCurrentActivity that found the focused tab's page accruing
\* leaves it accruing, whatever the elapsed time was, with no time gone from
\* committed plus in-progress; one that found it not accruing opens nothing
SaveRanAlone == fin.h = "SV" /\ Tracked(activeTabs, fin.tab)

StillAccruing ==
    (/\ SaveRanAlone /\ fin.page # 0
     /\ StartCondition(activeTabs, currentFocusedTab, isIdle, fin.tab))
        => Marker(fin.page) # None

\* the save is the first signal since startup, which opened the accrual at 1
NothingLost ==
    (SaveRanAlone /\ fin.page # 0 /\ ops = 1 /\ Marker(fin.page) # None)
        => pages[fin.page].totalActiveTime + (now - Marker(fin.page)) = now - 1

OpensNothing ==
    (SaveRanAlone /\ fin.page = 0) => Marker(activeTabs[fin.tab].pageId) = None

C32_ReconciliationTick == StillAccruing /\ NothingLost /\ OpensNothing

\* C33: the uncommitted part of an open accrual is never more than one
\* interval of the reconciliation timer
Uncommitted(pageId) == now - Marker(pageId)

C33_BoundedLoss ==
    \A p \in PageIds :
        (Exists(p) /\ Marker(p) # None) => Uncommitted(p) <= TickInterval

RECURSIVE SumDurations(_, _)
\* C34: the durations carried by the events of a page add up to its
\* totalActiveTime
SumDurations(pageId, types) ==
    IF types = {} THEN 0
    ELSE LET ty == CHOOSE x \in types : TRUE
         IN events[pageId][ty] * activeTimeMs(ty) + SumDurations(pageId, types \ {ty})

C34_EventDurations ==
    \A p \in PageIds :
        Exists(p) => SumDurations(p, EventTypes) = pages[p].totalActiveTime

\* C35: startup left the focused tab accruing since 1 on a page another tab
\* is bound to too; once that other tab is closed or has navigated, as the
\* first signal handled, the page's accrual is still the one opened at 1
BackgroundTabGone ==
    /\ fin.h \in {"TC", "PV"}
    /\ ops = 1
    /\ fin.tab # currentFocusedTab
    /\ fin.page # 0
    /\ ShouldAccrue(fin.page)

C35_FocusedAccrualKept == BackgroundTabGone => Marker(fin.page) = 1

\* C36: a visible=true report from a tab that is not the focused tab leaves
\* the focused tab recorded as it was, and the accrual startup opened at 1
\* for the focused tab is still open once the report is handled
ReportedVisible == fin.h = "FG" /\ ops = 1 /\ fin.page # 0

FocusedAccrualOpen == ReportedVisible => Marker(fin.page) = 1

FocusStays == currentFocusedTab' = currentFocusedTab

C36_VisibleReport == [](FocusedAccrualOpen) /\ [][FocusStays]_vars

\* C37: after PAUSE_TRACKING and RESUME_TRACKING, no page is accruing while
\* the host is idle and no handler is in flight, and the idle state the
\* tracker gates with is the one the host reported last
PausedAndResumed == cleaned.done /\ isTrackingEnabled

GatedAfterResume ==
    (PausedAndResumed /\ Quiescent /\ hostIdle)
        => \A p \in PageIds : Exists(p) => Marker(p) = None

IdleStateCurrent == PausedAndResumed => (isIdle = hostIdle)

C37_IdleGatingAfterResume == GatedAfterResume /\ IdleStateCurrent

\* C38: when initialize() completes while the host is not active, no page
\* has an open accrual marker
C38_NoAccrualWhileHostIdle ==
    (fin.h = "INIT" /\ hostIdle)
        => \A p \in PageIds : Exists(p) => Marker(p) = None

\* the upsertPage call that has just written left the row's visitCount one
\* above what the row held when the write was issued (1 for a new row)
UpsertCounted ==
    ret.call = "upsert" => pages[ret.page].visitCount = ret.T + 1

\* C39: however upsertPage calls interleave at their awaits, the pages table
\* holds one row per normalized url and every call's increment of visitCount
\* is kept
C39_InterleavedUpserts ==
    /\ OnePagePerUrl
    /\ UpsertCounted

\* the step in which init() runs tabManager.initialize()
InitializeRuns == ops = 0 /\ fin'.h = "INIT"

\* C40: tabManager.initialize() leaves the visitCount of every row the pages
\* table already holds as it was
C40_VisitCountFrame ==
    [][InitializeRuns =>
          \A p \in 1..Len(pages) : pages'[p].visitCount = pages[p].visitCount]_vars

====
